---- MODULE Spec2Model ----
(***************************************************************************)
(* Model of the reference validation session of tools/reference_validator  *)
(* (class ReferenceValidator): registry loading, candidate classification, *)
(* reference extraction, blueprint input checking and the per-file and     *)
(* per-directory verdicts.                                                 *)
(*                                                                         *)
(* Strings are sequences of one-character strings, so that prefix, suffix, *)
(* substring and pattern tests are computed the way the code computes      *)
(* them.  The fixed fragments of a message are single symbols of the       *)
(* message text (for instance ": Unknown entity "), the interpolated       *)
(* values are spelled out character by character.                          *)
(***************************************************************************)
EXTENDS Integers, Sequences, FiniteSets, TLC

(***************************************************************************)
(* String constants of the program.                                        *)
(***************************************************************************)
k_entity_id == <<"e","n","t","i","t","y","_","i","d">>
k_entity_ids == <<"e","n","t","i","t","y","_","i","d","s">>
k_entities == <<"e","n","t","i","t","i","e","s">>
k_device_id == <<"d","e","v","i","c","e","_","i","d">>
k_device_ids == <<"d","e","v","i","c","e","_","i","d","s">>
k_area_id == <<"a","r","e","a","_","i","d">>
k_area_ids == <<"a","r","e","a","_","i","d","s">>
k_data == <<"d","a","t","a">>
k_service == <<"s","e","r","v","i","c","e">>
k_action == <<"a","c","t","i","o","n">>
k_use_blueprint == <<"u","s","e","_","b","l","u","e","p","r","i","n","t">>
k_path == <<"p","a","t","h">>
k_input == <<"i","n","p","u","t">>
k_alias == <<"a","l","i","a","s">>
k_blueprint == <<"b","l","u","e","p","r","i","n","t">>
k_default == <<"d","e","f","a","u","l","t">>
k_id == <<"i","d">>
k_disabled_by == <<"d","i","s","a","b","l","e","d","_","b","y">>
k_devices == <<"d","e","v","i","c","e","s">>
k_areas == <<"a","r","e","a","s">>
s_secrets_yaml == <<"s","e","c","r","e","t","s",".","y","a","m","l">>
s_automations_yaml == <<"a","u","t","o","m","a","t","i","o","n","s",".","y","a","m","l">>
s_scripts_yaml == <<"s","c","r","i","p","t","s",".","y","a","m","l">>
s_scenes_yaml == <<"s","c","e","n","e","s",".","y","a","m","l">>
s_ext_yaml == <<".","y","a","m","l">>
s_ext_yml == <<".","y","m","l">>
s_all == <<"a","l","l">>
s_none == <<"n","o","n","e">>
s_sun_sun == <<"s","u","n",".","s","u","n">>
s_zone_home == <<"z","o","n","e",".","h","o","m","e">>
s_sun == <<"s","u","n">>
s_script == <<"s","c","r","i","p","t">>
s_scene == <<"s","c","e","n","e">>
s_reload == <<"r","e","l","o","a","d">>
s_turn_on == <<"t","u","r","n","_","o","n">>
s_turn_off == <<"t","u","r","n","_","o","f","f">>
s_states_call == <<"s","t","a","t","e","s","(">>
s_is_state_call == <<"i","s","_","s","t","a","t","e","(">>
s_state_attr_call == <<"s","t","a","t","e","_","a","t","t","r","(">>
s_states_dot == <<"s","t","a","t","e","s",".">>

builtin_service_domains ==
  { <<"h","o","m","e","a","s","s","i","s","t","a","n","t">>,
    <<"a","u","t","o","m","a","t","i","o","n">>,
    <<"s","c","r","i","p","t">>,
    <<"s","c","e","n","e">>,
    <<"i","n","p","u","t","_","b","o","o","l","e","a","n">>,
    <<"i","n","p","u","t","_","n","u","m","b","e","r">>,
    <<"i","n","p","u","t","_","s","e","l","e","c","t">>,
    <<"i","n","p","u","t","_","t","e","x","t">>,
    <<"l","i","g","h","t">>,
    <<"s","w","i","t","c","h">>,
    <<"c","o","v","e","r">>,
    <<"f","a","n">>,
    <<"c","l","i","m","a","t","e">>,
    <<"m","e","d","i","a","_","p","l","a","y","e","r">>,
    <<"c","a","m","e","r","a">>,
    <<"l","o","c","k">>,
    <<"v","a","c","u","u","m">>,
    <<"n","o","t","i","f","y">>,
    <<"p","e","r","s","i","s","t","e","n","t","_","n","o","t","i","f","i","c","a","t","i","o","n">> }
DYNAMIC_SERVICE_DOMAINS ==
  { <<"n","o","t","i","f","y">>,
    <<"t","t","s">>,
    <<"r","e","s","t","_","c","o","m","m","a","n","d">>,
    <<"s","h","e","l","l","_","c","o","m","m","a","n","d">>,
    <<"p","y","s","c","r","i","p","t">> }
SPECIAL_KEYWORDS == { s_all, s_none }
BUILTIN_ENTITIES == { s_sun_sun, s_zone_home }
BUILTIN_DOMAINS == { s_sun }
LowerChars == {"a","b","c","d","e","f","g","h","i","j","k","l","m","n","o","p","q","r","s","t","u","v","w","x","y","z"}
UpperChars == {"A","B","C","D","E","F","G","H","I","J","K","L","M","N","O","P","Q","R","S","T","U","V","W","X","Y","Z"}
DigitChars == {"0","1","2","3","4","5","6","7","8","9"}
HexChars == {"a","b","c","d","e","f"} \cup DigitChars
IdStartChars == LowerChars \cup UpperChars \cup {"_"}
IdChars == IdStartChars \cup DigitChars

(***************************************************************************)
(* String operations (Python str methods used by the validator).          *)
(***************************************************************************)
StartsWith(s, p) == Len(p) <= Len(s) /\ SubSeq(s, 1, Len(p)) = p
EndsWith(s, p) == Len(p) <= Len(s) /\ SubSeq(s, Len(s) - Len(p) + 1, Len(s)) = p
MatchAt(s, i, p) == i >= 1 /\ i + Len(p) - 1 <= Len(s) /\ SubSeq(s, i, i + Len(p) - 1) = p
Contains(s, p) == \E i \in 1..(Len(s) + 1) : MatchAt(s, i, p)
DotCount(s) == Cardinality({i \in 1..Len(s) : s[i] = "."})
FirstDot(s) == CHOOSE i \in 1..Len(s) : s[i] = "." /\ \A j \in 1..(i - 1) : s[j] # "."
\* value.split(".")[0]
DomainOf(s) == IF DotCount(s) = 0 THEN s ELSE SubSeq(s, 1, FirstDot(s) - 1)
\* value.split(".", 1)[1], for a value holding a "."
AfterFirstDot(s) == SubSeq(s, FirstDot(s) + 1, Len(s))
\* The end of the longest run of characters of S that starts at i (i - 1 when empty).
RunEnd(s, i, S) ==
  CHOOSE j \in (i - 1)..Len(s) :
    /\ \A k \in i..j : s[k] \in S
    /\ (j = Len(s) \/ s[j + 1] \notin S)
\* The end of the longest run of characters other than q that starts at i.
RunEndNot(s, i, q) ==
  CHOOSE j \in (i - 1)..Len(s) :
    /\ \A k \in i..j : s[k] # q
    /\ (j = Len(s) \/ s[j + 1] = q)

(***************************************************************************)
(* Candidate classifier.                                                   *)
(***************************************************************************)
UuidLen == 32

\* re.match(r"^[a-f0-9]{32}$", value): "$" also matches before one final newline.
is_uuid_format(value) ==
  /\ Len(value) \in {UuidLen, UuidLen + 1}
  /\ \A i \in 1..UuidLen : value[i] \in HexChars
  /\ (Len(value) = UuidLen + 1 => value[UuidLen + 1] = "\n")

\* re.search(r"\{\{.*?\}\}", value): "." does not match a newline.
is_template(value) ==
  \E i \in 1..Len(value), j \in 1..Len(value) :
    /\ MatchAt(value, i, <<"{", "{">>)
    /\ j >= i + 2
    /\ MatchAt(value, j, <<"}", "}">>)
    /\ \A k \in (i + 2)..(j - 1) : value[k] # "\n"

is_builtin_entity(entity_id) ==
  \/ entity_id \in BUILTIN_ENTITIES
  \/ DotCount(entity_id) > 0 /\ DomainOf(entity_id) \in BUILTIN_DOMAINS

should_skip_entity_validation(value) ==
  \/ StartsWith(value, <<"!">>)
  \/ is_uuid_format(value)
  \/ is_template(value)
  \/ value \in SPECIAL_KEYWORDS

(***************************************************************************)
(* Expression reference scanner: re.findall of seven patterns.  A match    *)
(* is [ok, cap, end]: the captured group and the index of its last         *)
(* character in the text.                                                  *)
(***************************************************************************)
NoMatch == [ok |-> FALSE, cap |-> <<>>, end |-> 0]

\* pre ([^q]+) q, followed by ")" when close: patterns 1, 2, 4, 5, 6 and 7.
QuotedMatchAt(s, p, pre, q, close) ==
  IF ~MatchAt(s, p, pre) THEN NoMatch
  ELSE LET b == p + Len(pre)
           e == RunEndNot(s, b, q)
       IN IF e < b \/ e >= Len(s) THEN NoMatch
          ELSE IF close /\ ~MatchAt(s, e + 2, <<")">>) THEN NoMatch
          ELSE [ok |-> TRUE, cap |-> SubSeq(s, b, e), end |-> IF close THEN e + 2 ELSE e + 1]

\* states\.([a-zA-Z_][a-zA-Z0-9_]*\.[a-zA-Z_][a-zA-Z0-9_]*): pattern 3.
DottedMatchAt(s, p) ==
  IF ~MatchAt(s, p, s_states_dot) THEN NoMatch
  ELSE LET b == p + Len(s_states_dot)
       IN IF b > Len(s) \/ s[b] \notin IdStartChars THEN NoMatch
          ELSE LET e1 == RunEnd(s, b + 1, IdChars)
               IN IF e1 + 2 > Len(s) \/ s[e1 + 1] # "." \/ s[e1 + 2] \notin IdStartChars
                  THEN NoMatch
                  ELSE LET e2 == RunEnd(s, e1 + 3, IdChars)
                       IN [ok |-> TRUE, cap |-> SubSeq(s, b, e2), end |-> e2]

PatternCount == 7

PatternMatchAt(n, s, p) ==
  CASE n = 1 -> QuotedMatchAt(s, p, s_states_call \o <<"'">>, "'", TRUE)
    [] n = 2 -> QuotedMatchAt(s, p, s_states_call \o <<"\"">>, "\"", TRUE)
    [] n = 3 -> DottedMatchAt(s, p)
    [] n = 4 -> QuotedMatchAt(s, p, s_is_state_call \o <<"'">>, "'", FALSE)
    [] n = 5 -> QuotedMatchAt(s, p, s_is_state_call \o <<"\"">>, "\"", FALSE)
    [] n = 6 -> QuotedMatchAt(s, p, s_state_attr_call \o <<"'">>, "'", FALSE)
    [] OTHER -> QuotedMatchAt(s, p, s_state_attr_call \o <<"\"">>, "\"", FALSE)

\* re.findall(pattern, template): leftmost, non-overlapping matches from p on.
RECURSIVE FindAll(_, _, _)
FindAll(n, s, p) ==
  IF p > Len(s) THEN {}
  ELSE LET m == PatternMatchAt(n, s, p)
       IN IF m.ok THEN {m.cap} \cup FindAll(n, s, m.end + 1)
          ELSE FindAll(n, s, p + 1)

extract_entities_from_template(template) ==
  {m \in UNION {FindAll(n, template, 1) : n \in 1..PatternCount} : DotCount(m) = 1}

(***************************************************************************)
(* Parsed documents (the result of yaml.load / json.load): a node is       *)
(* <<t, v>> with t the Python type: "map" (v: sequence of <<key, node>>,   *)
(* keys distinct, in insertion order), "list" (v: sequence of nodes),      *)
(* "str" (v: the characters), "num" (v: the digits) and "null".            *)
(***************************************************************************)
Map(kv) == <<"map", kv>>
List(items) == <<"list", items>>
Str(s) == <<"str", s>>
Num(digits) == <<"num", digits>>
Null == <<"null", <<>>>>

IsMap(d) == d[1] = "map"
IsList(d) == d[1] = "list"
IsStr(d) == d[1] = "str"

\* key in d
HasKey(d, k) == \E i \in DOMAIN d[2] : d[2][i][1] = k
\* d.get(k, default)
Get(d, k, default) ==
  IF HasKey(d, k) THEN d[2][CHOOSE i \in DOMAIN d[2] : d[2][i][1] = k][2] ELSE default
\* not x
Falsy(d) ==
  \/ d[1] = "null"
  \/ d[1] \in {"map", "list", "str"} /\ Len(d[2]) = 0
  \/ d[1] = "num" /\ d[2] = <<"0">>

\* The strings among the elements of a list, and a string or list value's
\* candidates, as the walks harvest them.
StrItems(d) == {d[2][i][2] : i \in {j \in DOMAIN d[2] : IsStr(d[2][j])}}
Harvest(value) ==
  IF IsStr(value) THEN {value[2]} ELSE IF IsList(value) THEN StrItems(value) ELSE {}

ENTITY_KEYS == {k_entity_id, k_entity_ids, k_entities}
DEVICE_KEYS == {k_device_id, k_device_ids}
AREA_KEYS == {k_area_id, k_area_ids}
TEMPLATE_CALLS == {s_state_attr_call, s_states_call, s_is_state_call}

RECURSIVE extract_entity_references(_)
EntityEntry(key, value) ==
  IF key \in ENTITY_KEYS
  THEN {s \in Harvest(value) : ~should_skip_entity_validation(s)}
  ELSE IF key \in DEVICE_KEYS \/ key \in AREA_KEYS THEN {}
  ELSE IF key = k_data /\ IsMap(value) THEN extract_entity_references(value)
  ELSE IF IsStr(value) /\ \E x \in TEMPLATE_CALLS : Contains(value[2], x)
  THEN extract_entities_from_template(value[2])
  ELSE extract_entity_references(value)

extract_entity_references(data) ==
  IF IsMap(data)
  THEN UNION {EntityEntry(data[2][i][1], data[2][i][2]) : i \in DOMAIN data[2]}
  ELSE IF IsList(data)
  THEN UNION {extract_entity_references(data[2][i]) : i \in DOMAIN data[2]}
  ELSE {}

RECURSIVE extract_device_references(_)
DeviceEntry(key, value) ==
  IF key \in DEVICE_KEYS
  THEN {s \in Harvest(value) : ~StartsWith(s, <<"!">>)}
  ELSE extract_device_references(value)

extract_device_references(data) ==
  IF IsMap(data)
  THEN UNION {DeviceEntry(data[2][i][1], data[2][i][2]) : i \in DOMAIN data[2]}
  ELSE IF IsList(data)
  THEN UNION {extract_device_references(data[2][i]) : i \in DOMAIN data[2]}
  ELSE {}

RECURSIVE extract_area_references(_)
AreaEntry(key, value) ==
  IF key \in AREA_KEYS
  THEN {s \in Harvest(value) : ~StartsWith(s, <<"!">>)}
  ELSE extract_area_references(value)

extract_area_references(data) ==
  IF IsMap(data)
  THEN UNION {AreaEntry(data[2][i][1], data[2][i][2]) : i \in DOMAIN data[2]}
  ELSE IF IsList(data)
  THEN UNION {extract_area_references(data[2][i]) : i \in DOMAIN data[2]}
  ELSE {}

RECURSIVE extract_entity_registry_ids(_)
RegistryIdEntry(key, value) ==
  IF key = k_entity_id /\ IsStr(value)
  THEN IF is_uuid_format(value[2]) THEN {value[2]} ELSE {}
  ELSE extract_entity_registry_ids(value)

extract_entity_registry_ids(data) ==
  IF IsMap(data)
  THEN UNION {RegistryIdEntry(data[2][i][1], data[2][i][2]) : i \in DOMAIN data[2]}
  ELSE IF IsList(data)
  THEN UNION {extract_entity_registry_ids(data[2][i]) : i \in DOMAIN data[2]}
  ELSE {}

RECURSIVE extract_service_calls(_)
ServiceEntry(key, value) ==
  IF key = k_service /\ IsStr(value)
  THEN IF ~StartsWith(value[2], <<"!">>) /\ ~is_template(value[2]) /\ DotCount(value[2]) > 0
       THEN {value[2]} ELSE {}
  ELSE IF key = k_action /\ IsStr(value)
  THEN IF DotCount(value[2]) > 0 /\ ~StartsWith(value[2], <<"!">>) THEN {value[2]} ELSE {}
  ELSE extract_service_calls(value)

extract_service_calls(data) ==
  IF IsMap(data)
  THEN UNION {ServiceEntry(data[2][i][1], data[2][i][2]) : i \in DOMAIN data[2]}
  ELSE IF IsList(data)
  THEN UNION {extract_service_calls(data[2][i]) : i \in DOMAIN data[2]}
  ELSE {}

(***************************************************************************)
(* The configuration directory on disk and the validation session.         *)
(***************************************************************************)
VARIABLES
  dirExists,       \* config_dir.exists()
  dirFiles,        \* the directory's entries [name, st, v], in glob order
  storage,         \* .storage: [entity, device, area], each a file [st, v]
  blueprintFiles,  \* blueprints/automation/**/*.yaml: [key, st, v], in rglob order
  errors,          \* self.errors
  warnings,        \* self.warnings
  c_entities,      \* self._entities: [loaded, d]; loaded = FALSE is None
  c_devices,       \* self._devices
  c_areas,         \* self._areas
  c_scripts,       \* self._scripts: [loaded, s]
  c_scenes,        \* self._scenes
  c_blueprints,    \* self._blueprints: [loaded, d]
  pc,              \* where the caller of the session is
  yaml_files,      \* validate_all: the files get_yaml_files returned
  idx,             \* validate_all: how many of them have been validated
  all_valid,       \* validate_all: its local all_valid
  calls,           \* the calls made so far and what each returned
  others,          \* the sessions of the process that are not running now, each
                   \* with its directory
  runner           \* the test runner's parallel run: its futures and its results

vars ==
  <<dirExists, dirFiles, storage, blueprintFiles, errors, warnings, c_entities,
    c_devices, c_areas, c_scripts, c_scenes, c_blueprints, pc, yaml_files, idx,
    all_valid, calls, others, runner>>

\* What no operation of the running session writes
envVars == <<dirExists, dirFiles, storage, blueprintFiles, others, runner>>

\* The session object, as the record of its fields.
Self ==
  [errors |-> errors, warnings |-> warnings, entities |-> c_entities,
   devices |-> c_devices, areas |-> c_areas, scripts |-> c_scripts,
   scenes |-> c_scenes, blueprints |-> c_blueprints]

NotLoaded == [loaded |-> FALSE, d |-> <<>>]

\* No parallel run has been started
NotRunning ==
  [at |-> "idle", exists |-> {}, futures |-> <<>>, pending |-> {}, finished |-> {},
   results |-> <<>>]
Loaded(d) == [loaded |-> TRUE, d |-> d]

AddError(s, text) == [s EXCEPT !.errors = Append(@, text)]
AddWarning(s, text) == [s EXCEPT !.warnings = Append(@, text)]

\* str(file_path) for a file of the configuration directory
FileId(name) == <<"config/">> \o name

(***************************************************************************)
(* Dictionaries: sequences of <<key node, value>> with distinct keys, in   *)
(* insertion order.                                                        *)
(***************************************************************************)
DictHas(d, k) == \E i \in DOMAIN d : d[i][1] = k
DictGet(d, k) == d[CHOOSE i \in DOMAIN d : d[i][1] = k][2]
DictPut(d, k, val) ==
  IF DictHas(d, k)
  THEN [i \in DOMAIN d |-> IF d[i][1] = k THEN <<k, val>> ELSE d[i]]
  ELSE Append(d, <<k, val>>)
DictValues(d) == [i \in DOMAIN d |-> d[i][2]]

\* for x in value: the items iterated, or "fail" (TypeError) when not iterable
Iterable(value) == value[1] \in {"list", "map", "str"}
IterItems(value) ==
  IF IsList(value) THEN value[2]
  ELSE IF IsMap(value) THEN [i \in DOMAIN value[2] |-> Str(value[2][i][1])]
  ELSE [i \in DOMAIN value[2] |-> Str(<<value[2][i]>>)]

Hashable(node) == node[1] \notin {"list", "map"}

\* {item[idKey]: item for item in items}: "fail" on the first item that is no
\* mapping, lacks idKey or has an unhashable id.
RECURSIVE DictFromItems(_, _, _)
DictFromItems(items, idKey, acc) ==
  IF Len(items) = 0 THEN [ok |-> TRUE, d |-> acc]
  ELSE LET item == Head(items)
       IN IF ~IsMap(item) \/ ~HasKey(item, idKey) THEN [ok |-> FALSE, d |-> <<>>]
          ELSE IF ~Hashable(Get(item, idKey, Null)) THEN [ok |-> FALSE, d |-> <<>>]
          ELSE DictFromItems(Tail(items), idKey, DictPut(acc, Get(item, idKey, Null), item))

\* The body of the try block of a registry load: json.load and the dict
\* comprehension over data.get("data", {}).get(listKey, []).
ParseRegistry(file, listKey, idKey) ==
  IF file.st # "json" THEN [ok |-> FALSE, d |-> <<>>]
  ELSE IF ~IsMap(file.doc) THEN [ok |-> FALSE, d |-> <<>>]
  ELSE LET dataNode == Get(file.doc, k_data, Map(<<>>))
       IN IF ~IsMap(dataNode) THEN [ok |-> FALSE, d |-> <<>>]
          ELSE LET items == Get(dataNode, listKey, List(<<>>))
               IN IF ~Iterable(items) THEN [ok |-> FALSE, d |-> <<>>]
                  ELSE DictFromItems(IterItems(items), idKey, <<>>)

load_entity_registry(s) ==
  IF s.entities.loaded THEN [self |-> s, ret |-> s.entities.d]
  ELSE IF storage.entity.st = "missing"
  THEN [self |-> AddError(s, <<"Entity registry not found: ", "config/.storage/core.entity_registry">>),
        ret |-> <<>>]
  ELSE LET r == ParseRegistry(storage.entity, k_entities, k_entity_id)
       IN IF r.ok THEN [self |-> [s EXCEPT !.entities = Loaded(r.d)], ret |-> r.d]
          ELSE [self |-> AddError(s, <<"Failed to load entity registry: ", "{e}">>),
                ret |-> <<>>]

\* A variant of load_device_registry that reads the file on every call
load_device_registryUncached(s) ==
  IF storage.device.st = "missing"
  THEN [self |-> AddError(s, <<"Device registry not found: ", "config/.storage/core.device_registry">>),
        ret |-> <<>>]
  ELSE LET r == ParseRegistry(storage.device, k_devices, k_id)
       IN IF r.ok THEN [self |-> [s EXCEPT !.devices = Loaded(r.d)], ret |-> r.d]
          ELSE [self |-> AddError(s, <<"Failed to load device registry: ", "{e}">>),
                ret |-> <<>>]

load_device_registry(s) ==
  IF s.devices.loaded THEN [self |-> s, ret |-> s.devices.d]
  ELSE IF storage.device.st = "missing"
  THEN [self |-> AddError(s, <<"Device registry not found: ", "config/.storage/core.device_registry">>),
        ret |-> <<>>]
  ELSE LET r == ParseRegistry(storage.device, k_devices, k_id)
       IN IF r.ok THEN [self |-> [s EXCEPT !.devices = Loaded(r.d)], ret |-> r.d]
          ELSE [self |-> AddError(s, <<"Failed to load device registry: ", "{e}">>),
                ret |-> <<>>]

\* A variant of load_area_registry that records its failures as errors; C6 is
\* checked against it.
load_area_registryAsError(s) ==
  IF s.areas.loaded THEN [self |-> s, ret |-> s.areas.d]
  ELSE LET r == ParseRegistry(storage.area, k_areas, k_id)
       IN IF r.ok THEN [self |-> [s EXCEPT !.areas = Loaded(r.d)], ret |-> r.d]
          ELSE [self |-> AddError(s, <<"Failed to load area registry: ", "{e}">>), ret |-> <<>>]

load_area_registry(s) ==
  IF s.areas.loaded THEN [self |-> s, ret |-> s.areas.d]
  ELSE IF storage.area.st = "missing"
  THEN [self |-> AddWarning(s, <<"Area registry not found: ", "config/.storage/core.area_registry">>),
        ret |-> <<>>]
  ELSE LET r == ParseRegistry(storage.area, k_areas, k_id)
       IN IF r.ok THEN [self |-> [s EXCEPT !.areas = Loaded(r.d)], ret |-> r.d]
          ELSE [self |-> AddWarning(s, <<"Failed to load area registry: ", "{e}">>),
                ret |-> <<>>]

(***************************************************************************)
(* Scripts, scenes and blueprints of the configuration directory.          *)
(***************************************************************************)
FileExists(name) == \E i \in DOMAIN dirFiles : dirFiles[i].name = name
FileNamed(name) == dirFiles[CHOOSE i \in DOMAIN dirFiles : dirFiles[i].name = name]

\* set(data.keys()) of scripts.yaml when it holds a mapping
ScriptNames ==
  IF ~FileExists(s_scripts_yaml) THEN {}
  ELSE LET f == FileNamed(s_scripts_yaml)
       IN IF f.st = "parsed" /\ IsMap(f.doc) THEN {f.doc[2][i][1] : i \in DOMAIN f.doc[2]} ELSE {}

load_scripts(s) ==
  IF s.scripts.loaded THEN [self |-> s, ret |-> s.scripts.s]
  ELSE [self |-> [s EXCEPT !.scripts = [loaded |-> TRUE, s |-> ScriptNames]],
        ret |-> ScriptNames]

\* self._scenes.add(scene["id"]) item by item; an unhashable id ends the loop
\* (the except clause) with the ids added so far.
RECURSIVE SceneIds(_, _)
SceneIds(items, acc) ==
  IF Len(items) = 0 THEN acc
  ELSE LET scene == Head(items)
       IN IF ~IsMap(scene) \/ ~HasKey(scene, k_id) THEN SceneIds(Tail(items), acc)
          ELSE LET id == Get(scene, k_id, Null)
               IN IF ~Hashable(id) THEN acc
                  ELSE SceneIds(Tail(items), IF IsStr(id) THEN acc \cup {id[2]} ELSE acc)

SceneNames ==
  IF ~FileExists(s_scenes_yaml) THEN {}
  ELSE LET f == FileNamed(s_scenes_yaml)
       IN IF f.st = "parsed" /\ IsList(f.doc) THEN SceneIds(f.doc[2], {}) ELSE {}

load_scenes(s) ==
  IF s.scenes.loaded THEN [self |-> s, ret |-> s.scenes.s]
  ELSE [self |-> [s EXCEPT !.scenes = [loaded |-> TRUE, s |-> SceneNames]],
        ret |-> SceneNames]

\* The blueprint files that parse to a mapping holding "blueprint", keyed by
\* their path relative to blueprints/automation.
RECURSIVE BlueprintDict(_, _)
BlueprintDict(files, acc) ==
  IF Len(files) = 0 THEN acc
  ELSE LET f == Head(files)
       IN IF f.st = "parsed" /\ IsMap(f.doc) /\ HasKey(f.doc, k_blueprint)
          THEN BlueprintDict(Tail(files), DictPut(acc, Str(f.key), f.doc))
          ELSE BlueprintDict(Tail(files), acc)

load_blueprints(s) ==
  IF s.blueprints.loaded THEN [self |-> s, ret |-> s.blueprints.d]
  ELSE LET d == BlueprintDict(blueprintFiles, <<>>)
       IN [self |-> [s EXCEPT !.blueprints = Loaded(d)], ret |-> d]

(***************************************************************************)
(* Blueprint input checking.                                               *)
(***************************************************************************)
Digits == <<"0", "1", "2", "3", "4", "5", "6", "7", "8", "9">>
RECURSIVE IntText(_)
IntText(n) ==
  IF n < 10 THEN <<Digits[n + 1]>> ELSE IntText(n \div 10) \o <<Digits[(n % 10) + 1]>>

\* str(x) inside an f-string
StrOf(node) ==
  CASE IsStr(node) -> node[2]
    [] node[1] = "num" -> node[2]
    [] node[1] = "null" -> <<"N", "o", "n", "e">>
    [] OTHER -> <<"{repr}">>

\* First blueprint, in dictionary order, whose key is a suffix of the path or has
\* the path as a suffix: 0 when there is none.
MatchingBlueprint(blueprints, blueprint_path) ==
  LET hits == {i \in DOMAIN blueprints :
                 \/ EndsWith(blueprint_path, blueprints[i][1][2])
                 \/ EndsWith(blueprints[i][1][2], blueprint_path)}
  IN IF hits = {} THEN 0 ELSE CHOOSE i \in hits : \A j \in hits : i <= j

\* input_name not in automation_inputs; "raise" when the operand has no "in"
NotIn(input_name, automation_inputs) ==
  CASE IsMap(automation_inputs) -> IF HasKey(automation_inputs, input_name) THEN "no" ELSE "yes"
    [] IsList(automation_inputs) ->
         IF \E i \in DOMAIN automation_inputs[2] :
              IsStr(automation_inputs[2][i]) /\ automation_inputs[2][i][2] = input_name
         THEN "no" ELSE "yes"
    [] IsStr(automation_inputs) -> IF Contains(automation_inputs[2], input_name) THEN "no" ELSE "yes"
    [] OTHER -> "raise"

\* is_optional of one blueprint input
IsOptionalInput(input_config) == IsMap(input_config) /\ HasKey(input_config, k_default)

\* What the loop over blueprint_inputs.items() appends for one input.
MissingInputFinding(s, file_path, alias, input_name) ==
  AddWarning(s, file_path \o <<": ", "'">> \o alias \o <<"'", " - Blueprint input ", "'">>
                \o input_name \o <<"'", " not provided (may use default)">>)

\* One input of the loop over blueprint_inputs.items()
InputStep(s, missing, input_name, input_config, file_path, alias) ==
  IF missing = "yes" /\ ~IsOptionalInput(input_config)
  THEN MissingInputFinding(s, file_path, alias, input_name) ELSE s

\* The loop over blueprint_inputs.items(): [self, ret], ret "raised" on TypeError.
RECURSIVE BlueprintInputLoop(_, _, _, _, _)
BlueprintInputLoop(s, inputs, automation_inputs, file_path, alias) ==
  IF Len(inputs) = 0 THEN [self |-> s, ret |-> "True"]
  ELSE IF NotIn(inputs[1][1], automation_inputs) = "raise" THEN [self |-> s, ret |-> "raised"]
  ELSE BlueprintInputLoop(
         InputStep(s, NotIn(inputs[1][1], automation_inputs), inputs[1][1], inputs[1][2],
                   file_path, alias),
         Tail(inputs), automation_inputs, file_path, alias)

\* The input check against the blueprint found
CheckInputs(s, blueprint_inputs, automation_inputs, file_path, alias) ==
  IF ~IsMap(blueprint_inputs) THEN [self |-> s, ret |-> "raised"]
  ELSE BlueprintInputLoop(s, blueprint_inputs[2], automation_inputs, file_path, alias)

\* get_blueprint_inputs, then the input check
CheckBlueprint(s, blueprint_section, automation_inputs, file_path, alias) ==
  IF ~IsMap(blueprint_section) THEN [self |-> s, ret |-> "raised"]
  ELSE CheckInputs(s, Get(blueprint_section, k_input, Map(<<>>)), automation_inputs,
                   file_path, alias)

\* A variant of the search that says nothing of a blueprint it does not find;
\* C11 is checked against it.
ResolveBlueprintSilent(l, hit, blueprint_path, automation_inputs, file_path, index, alias) ==
  IF hit = 0 THEN [self |-> l.self, ret |-> "True"]
  ELSE CheckBlueprint(l.self, Get(l.ret[hit][2], k_blueprint, Map(<<>>)), automation_inputs,
                      file_path, alias)

\* The search of the loaded blueprints for the path, and what follows it
ResolveBlueprint(l, hit, blueprint_path, automation_inputs, file_path, index, alias) ==
  IF hit = 0
  THEN [self |-> AddWarning(l.self,
           file_path \o <<": Automation ">> \o IntText(index) \o <<" uses blueprint ", "'">>
           \o blueprint_path \o <<"'", " which was not found locally">>),
        ret |-> "True"]
  ELSE CheckBlueprint(l.self, Get(l.ret[hit][2], k_blueprint, Map(<<>>)), automation_inputs,
                      file_path, alias)

BlueprintsLoaded(l, blueprint_path, automation_inputs, file_path, index, alias) ==
  ResolveBlueprint(l, MatchingBlueprint(l.ret, blueprint_path), blueprint_path,
                   automation_inputs, file_path, index, alias)

UseBlueprint(s, blueprint_path, automation_inputs, file_path, index, alias) ==
  IF Falsy(blueprint_path) THEN [self |-> s, ret |-> "True"]
  ELSE IF ~IsStr(blueprint_path) THEN [self |-> s, ret |-> "raised"]
  ELSE IF StartsWith(blueprint_path[2], <<"!">>) THEN [self |-> s, ret |-> "True"]
  ELSE BlueprintsLoaded(load_blueprints(s), blueprint_path[2], automation_inputs, file_path,
                        index, alias)

UseBlueprintSection(s, use_blueprint, file_path, index, alias) ==
  IF ~IsMap(use_blueprint) THEN [self |-> s, ret |-> "True"]
  ELSE UseBlueprint(s, Get(use_blueprint, k_path, Str(<<>>)),
                    Get(use_blueprint, k_input, Map(<<>>)), file_path, index, alias)

\* validate_blueprint_automation: [self, ret], ret "raised" when an exception
\* leaves the method.
validate_blueprint_automation(s, automation, file_path, index) ==
  IF ~HasKey(automation, k_use_blueprint) THEN [self |-> s, ret |-> "True"]
  ELSE UseBlueprintSection(s, Get(automation, k_use_blueprint, Null), file_path, index,
         StrOf(Get(automation, k_alias, Str(<<"Automation ">> \o IntText(index)))))

\* validate_blueprints_in_file: the automations from position i on.
RECURSIVE BlueprintsLoop(_, _, _, _)
BlueprintsNext(r, items, i, file_path) ==
  IF r.ret = "raised" THEN r ELSE BlueprintsLoop(r.self, items, i + 1, file_path)

BlueprintsLoop(s, items, i, file_path) ==
  IF i > Len(items) THEN [self |-> s, ret |-> "True"]
  ELSE IF IsMap(items[i]) /\ HasKey(items[i], k_use_blueprint)
  THEN BlueprintsNext(validate_blueprint_automation(s, items[i], file_path, i - 1),
                      items, i, file_path)
  ELSE BlueprintsLoop(s, items, i + 1, file_path)

validate_blueprints_in_file(s, file_path, data) ==
  IF ~IsList(data) THEN [self |-> s, ret |-> "True"]
  ELSE BlueprintsLoop(s, data[2], 1, file_path)

(***************************************************************************)
(* Cross-checks of one file.  A loop over a Python set visits its elements *)
(* in an order the program does not fix: each loop takes the order as a    *)
(* sequence enumerating the set.                                           *)
(***************************************************************************)
Orderings(S) ==
  {o \in [1..Cardinality(S) -> S] : \A i, j \in 1..Cardinality(S) : o[i] = o[j] => i = j}

\* The comprehension of get_entity_registry_id_mapping over the records that
\* hold "id": [self, ret, raised]
IdMappingOf(s, withId) ==
  IF \E i \in DOMAIN withId : ~Hashable(Get(withId[i], k_id, Null))
  THEN [self |-> s, ret |-> <<>>, raised |-> TRUE]
  ELSE [self |-> s, raised |-> FALSE,
        ret |-> [i \in DOMAIN withId |->
                   <<Get(withId[i], k_id, Null), Get(withId[i], k_entity_id, Null)>>]]

IdMappingLoaded(l) ==
  IdMappingOf(l.self, SelectSeq(DictValues(l.ret), LAMBDA e : HasKey(e, k_id)))

get_entity_registry_id_mapping(s) == IdMappingLoaded(load_entity_registry(s))

\* The mapping as a dictionary: a later record with the same id replaces the
\* entity of an earlier one.
RECURSIVE DictOfPairs(_, _)
DictOfPairs(pairs, acc) ==
  IF Len(pairs) = 0 THEN acc
  ELSE DictOfPairs(Tail(pairs), DictPut(acc, pairs[1][1], pairs[1][2]))

\* A variant of the service check that records an unknown domain as an error;
\* C12 is checked against it.
ServiceCallFindingAsError(s, service, file_path, scripts, scenes, entity_domains) ==
  IF DotCount(service) = 0 THEN s
  ELSE IF DomainOf(service) \in builtin_service_domains \cup DYNAMIC_SERVICE_DOMAINS
                                 \cup entity_domains
  THEN s
  ELSE AddError(s, file_path \o <<": Unknown service domain ", "'">> \o DomainOf(service)
                     \o <<"'", " in service call ", "'">> \o service \o <<"'">>)

\* One service call of validate_service_calls.
ServiceCallFinding(s, service, file_path, scripts, scenes, entity_domains) ==
  IF DotCount(service) = 0 THEN s
  ELSE LET domain == DomainOf(service)
           action == AfterFirstDot(service)
       IN IF domain \in builtin_service_domains
          THEN IF domain = s_script /\ action \notin scripts
               THEN IF action \notin {s_reload, s_turn_on, s_turn_off}
                    THEN AddWarning(s, file_path \o <<": Service ", "'">> \o s_script \o <<".">>
                           \o action \o <<"'", " - script ", "'">> \o action
                           \o <<"'", " not found in scripts.yaml">>)
                    ELSE s
               ELSE IF domain = s_scene /\ action \notin scenes
               THEN IF action \notin {s_reload, s_turn_on}
                    THEN AddWarning(s, file_path \o <<": Service ", "'">> \o s_scene \o <<".">>
                           \o action \o <<"'", " - scene ", "'">> \o action
                           \o <<"'", " not found in scenes.yaml">>)
                    ELSE s
               ELSE s
          ELSE IF domain \in DYNAMIC_SERVICE_DOMAINS THEN s
          ELSE IF domain \in entity_domains THEN s
          ELSE AddWarning(s, file_path \o <<": Unknown service domain ", "'">> \o domain
                 \o <<"'", " in service call ", "'">> \o service \o <<"'">>)

RECURSIVE ServiceLoop(_, _, _, _, _, _)
ServiceLoop(s, order, file_path, scripts, scenes, entity_domains) ==
  IF Len(order) = 0 THEN s
  ELSE ServiceLoop(ServiceCallFinding(s, Head(order), file_path, scripts, scenes, entity_domains),
                   Tail(order), file_path, scripts, scenes, entity_domains)

\* validate_service_calls once scripts, scenes and entities are loaded
ServiceCallsLoaded(scripts, scenes, l, order, file_path) ==
  IF \E i \in DOMAIN l.ret : ~IsStr(l.ret[i][1])
  THEN [self |-> l.self, ret |-> "raised"]
  ELSE [self |-> ServiceLoop(l.self, order, file_path, scripts, scenes,
                             {DomainOf(l.ret[i][1][2]) : i \in DOMAIN l.ret}),
        ret |-> "True"]

ServiceCallsScenes(scripts, l, order, file_path) ==
  ServiceCallsLoaded(scripts, l.ret, load_entity_registry(l.self), order, file_path)

ServiceCallsScripts(l, order, file_path) ==
  ServiceCallsScenes(l.ret, load_scenes(l.self), order, file_path)

\* validate_service_calls, visiting the services in the given order:
\* [self, ret], ret "raised" when an entity id of the registry has no split().
validate_service_calls(s, order, file_path) ==
  ServiceCallsScripts(load_scripts(s), order, file_path)

\* A variant of the entity check that records an unknown entity as a warning
\* and leaves the file valid; C3 is checked against it.
EntityFindingAsWarning(a, entity_id, file_path, entities) ==
  IF is_uuid_format(entity_id) \/ is_builtin_entity(entity_id) \/ DictHas(entities, Str(entity_id))
  THEN a
  ELSE [a EXCEPT !.self = AddWarning(@, file_path \o <<": Unknown entity ", "'">>
                                          \o entity_id \o <<"'">>)]

\* One entity reference of the entity check: [self, valid]
EntityFinding(a, entity_id, file_path, entities) ==
  IF is_uuid_format(entity_id) THEN a
  ELSE IF is_builtin_entity(entity_id) THEN a
  ELSE IF ~DictHas(entities, Str(entity_id))
  THEN LET disabled_entities ==
             {Get(entities[i][2], k_entity_id, Null) : i \in
                {j \in DOMAIN entities : Get(entities[j][2], k_disabled_by, Null)[1] # "null"}}
       IN IF Str(entity_id) \in disabled_entities
          THEN [a EXCEPT !.self = AddWarning(@, file_path \o <<": References disabled entity ", "'">>
                                               \o entity_id \o <<"'">>)]
          ELSE [self |-> AddError(a.self, file_path \o <<": Unknown entity ", "'">>
                                            \o entity_id \o <<"'">>),
                valid |-> FALSE]
  ELSE a

\* A variant of the registry-id check that records the id of a disabled entity
\* as an error; C16 is checked against it.
RegistryIdFindingStrict(a, registry_id, file_path, entities, entity_id_mapping) ==
  IF DictHas(entity_id_mapping, Str(registry_id))
     /\ Get(DictGet(entities, DictGet(entity_id_mapping, Str(registry_id))), k_disabled_by, Null)
          = Null
  THEN a
  ELSE [self |-> AddError(a.self, file_path \o <<": Unknown entity registry ID ", "'">>
                                    \o registry_id \o <<"'">>),
        valid |-> FALSE]

\* One registry id of the registry-id check
RegistryIdFinding(a, registry_id, file_path, entities, entity_id_mapping) ==
  IF ~DictHas(entity_id_mapping, Str(registry_id))
  THEN [self |-> AddError(a.self, file_path \o <<": Unknown entity registry ID ", "'">>
                                    \o registry_id \o <<"'">>),
        valid |-> FALSE]
  ELSE LET actual_entity_id == DictGet(entity_id_mapping, Str(registry_id))
       IN IF DictHas(entities, actual_entity_id)
             /\ Get(DictGet(entities, actual_entity_id), k_disabled_by, Null)[1] # "null"
          THEN [a EXCEPT !.self = AddWarning(@, file_path \o <<": Entity registry ID ", "'">>
                                     \o registry_id \o <<"'", " references disabled entity ", "'">>
                                     \o StrOf(actual_entity_id) \o <<"'">>)]
          ELSE a

\* A variant of the device check that records an unknown device as a warning;
\* C14 is checked against it.
DeviceFindingAsWarning(a, device_id, file_path, devices) ==
  IF ~DictHas(devices, Str(device_id))
  THEN [a EXCEPT !.self = AddWarning(@, file_path \o <<": Unknown device ", "'">>
                                          \o device_id \o <<"'">>)]
  ELSE a

DeviceFinding(a, device_id, file_path, devices) ==
  IF ~DictHas(devices, Str(device_id))
  THEN [self |-> AddError(a.self, file_path \o <<": Unknown device ", "'">> \o device_id \o <<"'">>),
        valid |-> FALSE]
  ELSE a

\* A variant of the area check that records an unknown area as an error; C15
\* is checked against it.
AreaFindingAsError(a, area_id, file_path, areas) ==
  IF ~DictHas(areas, Str(area_id))
  THEN [self |-> AddError(a.self, file_path \o <<": Unknown area ", "'">> \o area_id \o <<"'">>),
        valid |-> FALSE]
  ELSE a

AreaFinding(a, area_id, file_path, areas) ==
  IF ~DictHas(areas, Str(area_id))
  THEN [a EXCEPT !.self = AddWarning(@, file_path \o <<": Unknown area ", "'">> \o area_id \o <<"'">>)]
  ELSE a

RECURSIVE EntityLoop(_, _, _, _)
EntityLoop(a, order, file_path, entities) ==
  IF Len(order) = 0 THEN a
  ELSE EntityLoop(EntityFinding(a, Head(order), file_path, entities), Tail(order),
                  file_path, entities)

RECURSIVE RegistryIdLoop(_, _, _, _, _)
RegistryIdLoop(a, order, file_path, entities, mapping) ==
  IF Len(order) = 0 THEN a
  ELSE RegistryIdLoop(RegistryIdFinding(a, Head(order), file_path, entities, mapping),
                      Tail(order), file_path, entities, mapping)

RECURSIVE DeviceLoop(_, _, _, _)
DeviceLoop(a, order, file_path, devices) ==
  IF Len(order) = 0 THEN a
  ELSE DeviceLoop(DeviceFinding(a, Head(order), file_path, devices), Tail(order),
                  file_path, devices)

RECURSIVE AreaLoop(_, _, _, _)
AreaLoop(a, order, file_path, areas) ==
  IF Len(order) = 0 THEN a
  ELSE AreaLoop(AreaFinding(a, Head(order), file_path, areas), Tail(order), file_path, areas)

\* The iteration orders one call of validate_file_references may take.
RefOrders(data) ==
  [entity : Orderings(extract_entity_references(data)),
   registry_id : Orderings(extract_entity_registry_ids(data)),
   device : Orderings(extract_device_references(data)),
   area : Orderings(extract_area_references(data)),
   service : Orderings(extract_service_calls(data))]

\* The return of validate_file_references, after the blueprint check
FileVerdict(valid, bp) ==
  IF bp.ret = "raised" THEN bp ELSE [self |-> bp.self, ret |-> IF valid THEN "True" ELSE "False"]

\* The blueprint check, run for automations.yaml alone
AfterServiceCalls(valid, sv, f) ==
  IF sv.ret = "raised" THEN sv
  ELSE IF f.name = s_automations_yaml
  THEN FileVerdict(valid, validate_blueprints_in_file(sv.self, FileId(f.name), f.doc))
  ELSE FileVerdict(valid, sv)

\* The service check, after the four reference loops
AfterReferenceLoops(a, f, o) ==
  AfterServiceCalls(a.valid, validate_service_calls(a.self, o.service, FileId(f.name)), f)

\* The entity, registry-id, device and area loops, in this order
ReferenceLoops(s, entities, devices, areas, mapping, f, o) ==
  AreaLoop(
    DeviceLoop(
      RegistryIdLoop(
        EntityLoop([self |-> s, valid |-> TRUE], o.entity, FileId(f.name), entities),
        o.registry_id, FileId(f.name), entities, mapping),
      o.device, FileId(f.name), devices),
    o.area, FileId(f.name), areas)

AfterMapping(entities, devices, areas, m, f, o) ==
  IF m.raised THEN [self |-> m.self, ret |-> "raised"]
  ELSE AfterReferenceLoops(
         ReferenceLoops(m.self, entities, devices, areas, DictOfPairs(m.ret, <<>>), f, o), f, o)

AfterAreaLoad(entities, devices, l, f, o) ==
  AfterMapping(entities, devices, l.ret, get_entity_registry_id_mapping(l.self), f, o)

AfterDeviceLoad(entities, l, f, o) ==
  AfterAreaLoad(entities, l.ret, load_area_registry(l.self), f, o)

AfterEntityLoad(l, f, o) ==
  AfterDeviceLoad(l.ret, load_device_registry(l.self), f, o)

\* The part of validate_file_references that follows a successful parse of a
\* document that is not None: the registry loads, then the checks.
CheckReferences(s, f, o) == AfterEntityLoad(load_entity_registry(s), f, o)

\* A variant of validate_file_references that passes over an unparsable file
\* in silence; C8 is checked against it.
validate_file_referencesSkipping(s, f, o) ==
  IF f.name = s_secrets_yaml \/ f.st # "parsed" \/ f.doc[1] = "null"
  THEN [self |-> s, ret |-> "True"]
  ELSE CheckReferences(s, f, o)

\* validate_file_references(file_path): [self, ret] with ret "True", "False" or
\* "raised" (an exception leaves the method).
validate_file_references(s, f, o) ==
  IF f.name = s_secrets_yaml THEN [self |-> s, ret |-> "True"]
  ELSE IF f.st # "parsed"
  THEN [self |-> AddError(s, FileId(f.name) \o <<": Failed to load YAML - ", "{e}">>),
        ret |-> "False"]
  ELSE IF f.doc[1] = "null" THEN [self |-> s, ret |-> "True"]
  ELSE CheckReferences(s, f, o)

\* The orders the call on f may take: none is taken when no loop is reached.
CallOrders(f) ==
  IF f.name = s_secrets_yaml \/ f.st # "parsed" \/ f.doc[1] = "null"
  THEN RefOrders(Null) ELSE RefOrders(f.doc)

\* get_yaml_files: the *.yaml entries, then the *.yml entries
get_yaml_files ==
  SelectSeq(dirFiles, LAMBDA f : EndsWith(f.name, s_ext_yaml))
    \o SelectSeq(dirFiles, LAMBDA f : EndsWith(f.name, s_ext_yml))

(***************************************************************************)
(* Operations of the session, as the caller runs them.                     *)
(***************************************************************************)
Commit(s) ==
  /\ errors' = s.errors
  /\ warnings' = s.warnings
  /\ c_entities' = s.entities
  /\ c_devices' = s.devices
  /\ c_areas' = s.areas
  /\ c_scripts' = s.scripts
  /\ c_scenes' = s.scenes
  /\ c_blueprints' = s.blueprints

\* One finished call: what was called, on what, what it returned, and the
\* lengths of self.errors and self.warnings when it began and ended.
Call(op, arg, ret, out, s) ==
  [op |-> op, arg |-> arg, ret |-> ret, out |-> out,
   e0 |-> Len(errors), w0 |-> Len(warnings), e1 |-> Len(s.errors), w1 |-> Len(s.warnings)]

\* validate_all up to its loop
ValidateAllBegin ==
  /\ pc = "idle"
  /\ UNCHANGED envVars
  /\ IF ~dirExists
     THEN LET s == AddError(Self, <<"Config directory ", "config", " does not exist">>)
          IN /\ Commit(s)
             /\ pc' = "done"
             /\ UNCHANGED <<yaml_files, idx, all_valid>>
             /\ calls' = Append(calls, Call("validate_all", <<>>, "False", <<>>, s))
     ELSE IF Len(get_yaml_files) = 0
     THEN LET s == AddWarning(Self, <<"No YAML files found in config directory">>)
          IN /\ Commit(s)
             /\ pc' = "done"
             /\ UNCHANGED <<yaml_files, idx, all_valid>>
             /\ calls' = Append(calls, Call("validate_all", <<>>, "True", <<>>, s))
     ELSE /\ yaml_files' = get_yaml_files
          /\ idx' = 0
          /\ all_valid' = TRUE
          /\ pc' = "loop"
          /\ UNCHANGED <<errors, warnings, c_entities, c_devices, c_areas, c_scripts,
                         c_scenes, c_blueprints, calls>>

\* One iteration of validate_all's loop: validate_file_references on the next file
ValidateAllStep ==
  /\ pc = "loop"
  /\ idx < Len(yaml_files)
  /\ UNCHANGED <<envVars, yaml_files>>
  /\ LET f == yaml_files[idx + 1]
     IN \E o \in CallOrders(f) :
          LET r == validate_file_references(Self, f, o)
          IN /\ Commit(r.self)
             /\ calls' = Append(calls, Call("validate_file_references", f.name, r.ret, <<>>, r.self))
             /\ IF r.ret = "raised"
                THEN pc' = "raised" /\ UNCHANGED <<idx, all_valid>>
                ELSE /\ pc' = "loop"
                     /\ idx' = idx + 1
                     /\ all_valid' = (all_valid /\ r.ret = "True")

\* validate_all returns all_valid after the last file
ValidateAllReturn ==
  /\ pc = "loop"
  /\ idx = Len(yaml_files)
  /\ pc' = "done"
  /\ calls' = Append(calls, Call("validate_all", <<>>, IF all_valid THEN "True" ELSE "False",
                                 <<>>, Self))
  /\ UNCHANGED <<envVars, errors, warnings, c_entities, c_devices, c_areas, c_scripts,
                 c_scenes, c_blueprints, yaml_files, idx, all_valid>>

\* main: print_results after validate_all, whose get_entity_summary loads the
\* entity registry
PrintResults ==
  /\ pc = "done"
  /\ LET l == load_entity_registry(Self)
     IN /\ Commit(l.self)
        /\ calls' = Append(calls, Call("load_entity_registry", <<>>, "dict", l.ret, l.self))
  /\ pc' = "exit"
  /\ UNCHANGED <<envVars, yaml_files, idx, all_valid>>

(***************************************************************************)
(* The configurations the sessions are run on.                             *)
(***************************************************************************)
e_light_k == <<"l","i","g","h","t",".","k">>
e_light_l == <<"l","i","g","h","t",".","l">>
e_switch_d == <<"s","w","i","t","c","h",".","d">>
e_script_f == <<"s","c","r","i","p","t",".","f">>
d_dev1 == <<"d","e","v","1">>
d_dev8 == <<"d","e","v","8">>
d_dev9 == <<"d","e","v","9">>
a_ar1 == <<"a","r","1">>
a_ar9 == <<"a","r","9">>
v_custom_go == <<"c","u","s","t","o","m",".","g","o">>
v_light_on == <<"l","i","g","h","t",".","t","u","r","n","_","o","n">>
v_script_f == <<"s","c","r","i","p","t",".","f">>
n_automations == <<"a","u","t","o","m","a","t","i","o","n","s",".","y","a","m","l">>
n_scripts == <<"s","c","r","i","p","t","s",".","y","a","m","l">>
n_disabled == <<"d","i","s","a","b","l","e","d",".","y","a","m","l">>
n_enabled == <<"e","n","a","b","l","e","d",".","y","a","m","l">>
n_broken == <<"b","r","o","k","e","n",".","y","a","m","l">>
n_empty == <<"e","m","p","t","y",".","y","a","m","l">>
n_secrets == <<"s","e","c","r","e","t","s",".","y","a","m","l">>
n_refs == <<"r","e","f","s",".","y","m","l">>
n_notes == <<"n","o","t","e","s",".","t","x","t">>
n_plain == <<"p","l","a","i","n",".","y","a","m","l">>
n_uuids == <<"u","u","i","d","s",".","y","a","m","l">>
n_tmpl == <<"t","m","p","l",".","y","m","l">>
k_trigger == <<"t","r","i","g","g","e","r">>
k_target == <<"t","a","r","g","e","t">>
k_sequence == <<"s","e","q","u","e","n","c","e">>
k_go == <<"g","o">>
k_name == <<"n","a","m","e">>
k_value_template == <<"v","a","l","u","e","_","t","e","m","p","l","a","t","e">>
k_platform == <<"p","l","a","t","f","o","r","m">>
s_user == <<"u","s","e","r">>
s_home == <<"h","o","m","e">>
s_tmpl_states_k == <<"{","{"," ","s","t","a","t","e","s","(","'","l","i","g","h","t",".","k","'",")"," ","}","}">>
s_tmpl_plain == <<"{","{"," ","t","r","i","g","g","e","r",".","e","n","t","i","t","y","_","i","d"," ","}","}">>
k_a == <<"a">>
k_b == <<"b">>
k_c == <<"c">>
k_o == <<"o">>
p_m == <<"m",".","y","a","m","l">>
p_sub_m == <<"s","u","b","/","m",".","y","a","m","l">>
p_z == <<"z",".","y","a","m","l">>
p_x == <<"x",".","y","a","m","l">>
p_n == <<"n",".","y","a","m","l">>
s_one == <<"o","n","e">>
e_sensor_t == <<"s","e","n","s","o","r",".","t">>
v_sensor_read == <<"s","e","n","s","o","r",".","r","e","a","d">>
v_notify_me == <<"n","o","t","i","f","y",".","m","e">>
n_calls == <<"c","a","l","l","s",".","y","a","m","l">>
e_sun_moon == <<"s","u","n",".","m","o","o","n">>
n_sun == <<"s","u","n",".","y","a","m","l">>
\* A string of n characters c
RECURSIVE Repeat(_, _)
Repeat(c, n) == IF n = 0 THEN <<>> ELSE Append(Repeat(c, n - 1), c)

u_known == Repeat("a", UuidLen)
u_disabled == Repeat("d", UuidLen)
u_unknown == Repeat("0", UuidLen)

Entity(entity_id, id, disabled_by) ==
  Map(<< <<k_entity_id, Str(entity_id)>>, <<k_id, Str(id)>>, <<k_disabled_by, disabled_by>> >>)

\* .storage/core.entity_registry, core.device_registry and core.area_registry
EntityRegistryDoc ==
  Map(<< <<k_data, Map(<< <<k_entities, List(<<
    Entity(e_light_l, u_known, Null),
    Entity(e_switch_d, u_disabled, Str(s_user)),
    Map(<< <<k_entity_id, Str(e_script_f)>>, <<k_disabled_by, Null>> >>),
    Map(<< <<k_entity_id, Str(e_sensor_t)>>, <<k_disabled_by, Null>> >>) >>)>> >>)>> >>)
DeviceRegistryDoc ==
  Map(<< <<k_data, Map(<< <<k_devices, List(<< Map(<< <<k_id, Str(d_dev1)>> >>) >>)>> >>)>> >>)
AreaRegistryDoc ==
  Map(<< <<k_data, Map(<< <<k_areas, List(<< Map(<< <<k_id, Str(a_ar1)>> >>) >>)>> >>)>> >>)

Json(doc) == [st |-> "json", doc |-> doc]
Missing == [st |-> "missing", doc |-> Null]
BadJson == [st |-> "badjson", doc |-> Null]
Unreadable == [st |-> "unreadable", doc |-> Null]

Parsed(name, doc) == [name |-> name, st |-> "parsed", doc |-> doc]
Unparsed(name) == [name |-> name, st |-> "unreadable", doc |-> Null]

\* The files a configuration directory may hold, in the order the directory
\* lists them.
FileCatalog ==
  << Parsed(n_automations,
       List(<< Map(<< <<k_trigger, Map(<< <<k_platform, Str(s_home)>>,
                                         <<k_entity_id, Str(e_light_k)>> >>)>> >>) >>)),
     Parsed(n_scripts,
       Map(<< <<k_go, Map(<< <<k_sequence, List(<<
                Map(<< <<k_service, Str(v_script_f)>>,
                       <<k_target, Map(<< <<k_entity_id, Str(e_script_f)>> >>)>> >>) >>)>> >>)>> >>)),
     Parsed(n_disabled, Map(<< <<k_entity_id, Str(e_switch_d)>> >>)),
     Parsed(n_enabled,
       Map(<< <<k_entities, List(<<Str(e_light_l), Str(s_sun_sun)>>)>>,
              <<k_service, Str(v_light_on)>>,
              <<k_data, Map(<< <<k_entity_id, Str(e_light_l)>>,
                               <<k_device_id, Str(d_dev1)>>,
                               <<k_area_id, Str(a_ar1)>> >>)>> >>)),
     Unparsed(n_broken),
     Parsed(n_empty, Null),
     Parsed(n_secrets, Map(<< <<k_entity_id, Str(e_light_k)>> >>)),
     Parsed(n_refs,
       Map(<< <<k_device_ids, List(<<Str(d_dev9), Str(d_dev8)>>)>>,
              <<k_area_id, Str(a_ar9)>>,
              <<k_action, Str(v_custom_go)>> >>)),
     Parsed(n_notes, Map(<< <<k_entity_id, Str(e_light_k)>> >>)),
     Parsed(n_plain, Map(<< <<k_name, Str(s_home)>> >>)),
     Parsed(n_uuids,
       List(<< Map(<< <<k_entity_id, Str(u_disabled)>> >>),
               Map(<< <<k_entity_id, Str(u_unknown)>> >>),
               Map(<< <<k_entity_id, Str(u_known)>> >>) >>)),
     Parsed(n_tmpl,
       Map(<< <<k_value_template, Str(s_tmpl_states_k)>>,
              <<k_entity_id, Str(s_tmpl_plain)>> >>)),
     Parsed(n_calls,
       List(<< Map(<< <<k_service, Str(v_custom_go)>> >>),
               Map(<< <<k_service, Str(v_sensor_read)>> >>),
               Map(<< <<k_action, Str(v_notify_me)>> >>) >>)),
     Parsed(n_sun, Map(<< <<k_entity_id, Str(e_sun_moon)>> >>)) >>

MaxFiles == 2

Min(S) == CHOOSE m \in S : \A n \in S : m <= n
RECURSIVE Pick(_, _)
Pick(catalog, I) ==
  IF I = {} THEN <<>> ELSE <<catalog[Min(I)]>> \o Pick(catalog, I \ {Min(I)})

\* The directories of at most MaxFiles files of the catalog
Directories ==
  {Pick(FileCatalog, I) : I \in {J \in SUBSET DOMAIN FileCatalog : Cardinality(J) <= MaxFiles}}

\* Automations of automations.yaml: one that uses no blueprint, and uses of
\* the blueprint m.yaml (inputs a and b without default, o with a default)
UseOf(path, inputs) ==
  Map(<< <<k_use_blueprint, Map(<< <<k_path, path>>, <<k_input, inputs>> >>)>> >>)
RECURSIVE SuppliedPairs(_)
SuppliedPairs(names) ==
  IF Len(names) = 0 THEN <<>>
  ELSE <<<<Head(names), Str(e_light_l)>>>> \o SuppliedPairs(Tail(names))
Supplied(names) == Map(SuppliedPairs(names))

AutomationCatalog ==
  { Map(<< <<k_trigger, Map(<< <<k_entity_id, Str(e_light_k)>> >>)>> >>),
    Map(<< <<k_alias, Str(s_one)>>,
           <<k_use_blueprint, Map(<< <<k_path, Str(p_m)>>, <<k_input, Supplied(<<k_a>>)>> >>)>> >>),
    UseOf(Str(p_m), Supplied(<<k_a, k_b>>)),
    UseOf(Str(p_m), Supplied(<<k_a, k_b, k_c>>)),
    UseOf(Str(p_m), Null),
    Map(<< <<k_use_blueprint, Map(<< <<k_path, Str(p_m)>> >>)>> >>),
    UseOf(Num(<<"5">>), Supplied(<<k_a, k_b>>)),
    UseOf(Str(p_z), Supplied(<<k_a>>)) }

MaxAutomations == 2

AutomationLists == UNION {[1..n -> AutomationCatalog] : n \in 1..MaxAutomations}

BlueprintFile(key, doc) == [key |-> key, st |-> "parsed", doc |-> doc]

\* blueprints/automation: absent; holding the blueprint m.yaml beside a file
\* that does not parse and one that is no blueprint; holding a blueprint
\* whose input section is a list
BlueprintDirectories ==
  { <<>>,
    << [key |-> p_x, st |-> "unreadable", doc |-> Null],
       BlueprintFile(p_n, Map(<< <<k_name, Str(s_home)>> >>)),
       BlueprintFile(p_sub_m,
         Map(<< <<k_blueprint, Map(<< <<k_name, Str(s_home)>>,
                  <<k_input, Map(<< <<k_a, Map(<< <<k_name, Str(s_home)>> >>)>>,
                                    <<k_b, Null>>,
                                    <<k_o, Map(<< <<k_default, Str(e_light_l)>> >>)>> >>)>> >>)>> >>)) >>,
    << BlueprintFile(p_m,
         Map(<< <<k_blueprint, Map(<< <<k_input, List(<<Str(k_a), Str(k_b)>>)>> >>)>> >>)) >> }

AllLoadable ==
  [entity |-> Json(EntityRegistryDoc), device |-> Json(DeviceRegistryDoc),
   area |-> Json(AreaRegistryDoc)]

FreshSession ==
  /\ errors = <<>>
  /\ warnings = <<>>
  /\ c_entities = NotLoaded
  /\ c_devices = NotLoaded
  /\ c_areas = NotLoaded
  /\ c_scripts = [loaded |-> FALSE, s |-> {}]
  /\ c_scenes = [loaded |-> FALSE, s |-> {}]
  /\ c_blueprints = NotLoaded
  /\ pc = "idle"
  /\ yaml_files = <<>>
  /\ idx = 0
  /\ all_valid = TRUE
  /\ calls = <<>>

\* A directory of the catalog with no blueprints, over registries that load or
\* do not.
InitReferences ==
  /\ \/ dirExists = FALSE /\ dirFiles = <<>>
     \/ dirExists = TRUE /\ dirFiles \in Directories
  /\ storage \in [entity : {Json(EntityRegistryDoc), Missing, BadJson},
                  device : {Json(DeviceRegistryDoc), Missing},
                  area : {Json(AreaRegistryDoc), Missing}]
  /\ blueprintFiles = <<>>

\* A directory holding automations.yaml, over a blueprints directory.
InitBlueprints ==
  /\ dirExists = TRUE
  /\ \E au \in AutomationLists : dirFiles = <<Parsed(n_automations, List(au))>>
  /\ storage = AllLoadable
  /\ blueprintFiles \in BlueprintDirectories

Init == FreshSession /\ others = <<>> /\ runner = NotRunning /\ (InitReferences \/ InitBlueprints)

Next ==
  \/ ValidateAllBegin
  \/ ValidateAllStep
  \/ ValidateAllReturn
  \/ PrintResults

Spec == Init /\ [][Next]_vars

(***************************************************************************)
(* Direct calls of the registry loaders on a fresh session, before         *)
(* validate_all, over registry files that are absent, unreadable,          *)
(* malformed, no JSON object, or well-formed.                              *)
(***************************************************************************)
MaxDirectLoads == 2

LoadEntityRegistry ==
  /\ pc = "idle"
  /\ Len(calls) < MaxDirectLoads
  /\ LET l == load_entity_registry(Self)
     IN /\ Commit(l.self)
        /\ calls' = Append(calls, Call("load_entity_registry", <<>>, "dict", l.ret, l.self))
  /\ UNCHANGED <<envVars, pc, yaml_files, idx, all_valid>>

LoadDeviceRegistry ==
  /\ pc = "idle"
  /\ Len(calls) < MaxDirectLoads
  /\ LET l == load_device_registry(Self)
     IN /\ Commit(l.self)
        /\ calls' = Append(calls, Call("load_device_registry", <<>>, "dict", l.ret, l.self))
  /\ UNCHANGED <<envVars, pc, yaml_files, idx, all_valid>>

LoadAreaRegistry ==
  /\ pc = "idle"
  /\ Len(calls) < MaxDirectLoads
  /\ LET l == load_area_registry(Self)
     IN /\ Commit(l.self)
        /\ calls' = Append(calls, Call("load_area_registry", <<>>, "dict", l.ret, l.self))
  /\ UNCHANGED <<envVars, pc, yaml_files, idx, all_valid>>

\* A registry file holding JSON that is no object, and one whose list holds
\* an item that is no object.
NotAnObject == Json(List(<<>>))
BadItem(listKey) == Json(Map(<< <<k_data, Map(<< <<listKey, List(<<Str(s_one)>>)>> >>)>> >>))

InitLoads ==
  /\ FreshSession
  /\ others = <<>>
  /\ runner = NotRunning
  /\ dirExists = TRUE
  /\ dirFiles \in {<<FileCatalog[10]>>, <<FileCatalog[8]>>, <<FileCatalog[5], FileCatalog[1]>>}
  /\ storage \in [entity : {Json(EntityRegistryDoc), Missing, Unreadable, BadJson, NotAnObject,
                            BadItem(k_entities)},
                  device : {Json(DeviceRegistryDoc), Missing, Unreadable, BadJson, NotAnObject},
                  area : {Json(AreaRegistryDoc), Missing, Unreadable, BadJson, BadItem(k_areas)}]
  /\ blueprintFiles = <<>>

NextLoads ==
  \/ LoadEntityRegistry
  \/ LoadDeviceRegistry
  \/ LoadAreaRegistry
  \/ ValidateAllBegin
  \/ ValidateAllStep
  \/ ValidateAllReturn
  \/ PrintResults

SpecLoads == InitLoads /\ [][NextLoads]_vars

(***************************************************************************)
(* Vocabulary of the properties: the finished calls of                     *)
(* validate_file_references, the findings one call appended, and what a    *)
(* file holds.                                                             *)
(***************************************************************************)
FileCalls == {i \in DOMAIN calls : calls[i].op = "validate_file_references"}
SessionCalls == {i \in DOMAIN calls : calls[i].op = "validate_all"}

\* The file a call of validate_file_references was made on
FileOf(i) == dirFiles[CHOOSE j \in DOMAIN dirFiles : dirFiles[j].name = calls[i].arg]

\* Positions in self.errors and self.warnings of what call i appended
ErrorsOf(i) == (calls[i].e0 + 1)..calls[i].e1
WarningsOf(i) == (calls[i].w0 + 1)..calls[i].w1

\* Every mapping entry <<key, value>> of a document, at any depth
RECURSIVE AllPairs(_)
AllPairs(d) ==
  IF IsMap(d) THEN UNION {{d[2][i]} \cup AllPairs(d[2][i][2]) : i \in DOMAIN d[2]}
  ELSE IF IsList(d) THEN UNION {AllPairs(d[2][i]) : i \in DOMAIN d[2]}
  ELSE {}

\* The strings a document stores under one of the given keys, alone or in a list
StoredUnder(d, keys) == UNION {Harvest(p[2]) : p \in {q \in AllPairs(d) : q[1] \in keys}}

EntityLoadable == ParseRegistry(storage.entity, k_entities, k_entity_id).ok
DeviceLoadable == ParseRegistry(storage.device, k_devices, k_id).ok
AreaLoadable == ParseRegistry(storage.area, k_areas, k_id).ok
RegistriesLoadable == EntityLoadable /\ DeviceLoadable /\ AreaLoadable

\* The entity registry as it loads, and the record of one entity id
RegistryEntities == ParseRegistry(storage.entity, k_entities, k_entity_id).d
Registered(x) == DictHas(RegistryEntities, Str(x))
DisabledBy(x) == Get(DictGet(RegistryEntities, Str(x)), k_disabled_by, Null)

\* A file that parsed to a document whose only reference is entity id x, stored
\* under an entity_id key
OnlyEntityReference(f, x) ==
  /\ f.name # s_secrets_yaml
  /\ f.st = "parsed"
  /\ x \in StoredUnder(f.doc, {k_entity_id})
  /\ StoredUnder(f.doc, ENTITY_KEYS) = {x}
  /\ extract_entity_references(f.doc) = {x}
  /\ extract_entity_registry_ids(f.doc) = {}
  /\ extract_device_references(f.doc) = {}
  /\ extract_area_references(f.doc) = {}
  /\ extract_service_calls(f.doc) = {}
  /\ k_use_blueprint \notin {p[1] : p \in AllPairs(f.doc)}

\* Positions among the first n errors of a failed load of a mandatory registry
RegistryLoadErrors(n) ==
  {k \in 1..n : errors[k][1] \in {"Entity registry not found: ",
                                           "Failed to load entity registry: ",
                                           "Device registry not found: ",
                                           "Failed to load device registry: "}}

\* C1: validate_all returns True if and only if the configuration directory
\* exists, every call of validate_file_references returned True, and no load
\* of the entity or the device registry had failed by the time it returned.
C1_SessionValidIff ==
  \A i \in SessionCalls :
    (calls[i].ret = "True") <=>
      (dirExists /\ (\A j \in FileCalls : calls[j].ret = "True") /\ RegistryLoadErrors(calls[i].e1) = {})

\* C2: a call of validate_file_references returns False if and only if it
\* appended to self.errors at least one text that begins with the file's path;
\* the warnings it appended play no part in the result.
C2_FileInvalidIffError ==
  \A i \in FileCalls :
    (calls[i].ret = "False") <=>
      (\E k \in ErrorsOf(i) : StartsWith(errors[k], FileId(calls[i].arg)))

\* C3: when all three registries load and the only reference of a file is one
\* entity id under an entity_id key that is not in the entity registry, is not
\* 32 hexadecimal characters and is no built-in entity, the call on the file
\* appends exactly one error, which contains the entity id, appends no warning
\* and returns False.
C3_UnknownEntityOneError ==
  \A i \in FileCalls :
    \A x \in StoredUnder(FileOf(i).doc, {k_entity_id}) :
      (/\ RegistriesLoadable
       /\ OnlyEntityReference(FileOf(i), x)
       /\ ~Registered(x) /\ ~is_uuid_format(x) /\ ~is_builtin_entity(x))
      => /\ calls[i].e1 = calls[i].e0 + 1
         /\ Contains(errors[calls[i].e1], x)
         /\ StartsWith(errors[calls[i].e1], FileId(calls[i].arg))
         /\ calls[i].w1 = calls[i].w0
         /\ calls[i].ret = "False"

C3_Witness ==
  \E i \in FileCalls :
    /\ RegistriesLoadable
    /\ OnlyEntityReference(FileOf(i), e_light_k)
    /\ ~Registered(e_light_k) /\ ~is_uuid_format(e_light_k) /\ ~is_builtin_entity(e_light_k)
    /\ calls[i].ret = "False"
    /\ calls[i].e1 = calls[i].e0 + 1

\* C4: when all three registries load and the only reference of a file is one
\* entity id under an entity_id key whose registry record has a disabled_by
\* that is not null, the call on the file appends exactly one warning
\* mentioning the entity id and no error.
C4_DisabledEntityOneWarning ==
  \A i \in FileCalls :
    \A x \in StoredUnder(FileOf(i).doc, {k_entity_id}) :
      (/\ RegistriesLoadable
       /\ OnlyEntityReference(FileOf(i), x)
       /\ Registered(x) /\ DisabledBy(x) # Null)
      => /\ Cardinality({k \in WarningsOf(i) : Contains(warnings[k], x)}) = 1
         /\ calls[i].e1 = calls[i].e0

\* C5: no error and no warning that a call of validate_file_references
\* appended mentions an entity id that the file stores under an entity_id,
\* entity_ids or entities key and that the entity registry holds with
\* disabled_by null.
C5_EnabledEntityNoFinding ==
  \A i \in FileCalls :
    \A x \in StoredUnder(FileOf(i).doc, ENTITY_KEYS) :
      (EntityLoadable /\ Registered(x) /\ DisabledBy(x) = Null)
      => /\ \A k \in ErrorsOf(i) : ~Contains(errors[k], x)
         /\ \A k \in WarningsOf(i) : ~Contains(warnings[k], x)

LoadCalls(op) == {i \in DOMAIN calls : calls[i].op = op}
RegistryDevices == ParseRegistry(storage.device, k_devices, k_id).d
RegistryAreas == ParseRegistry(storage.area, k_areas, k_id).d

\* Every file of get_yaml_files has had its call of validate_file_references
AllFilesValidated ==
  \A j \in DOMAIN get_yaml_files : \E i \in FileCalls : calls[i].arg = get_yaml_files[j].name

\* C6: a load of the entity or device registry whose file is absent, unreadable
\* or malformed returns an empty map and appends one error and no warning; the
\* same load of the area registry returns an empty map and appends one warning
\* and no error; a registry whose file is well-formed still loads, no exception
\* leaves a call, and validate_all still calls validate_file_references on
\* every file.
C6_FailedLoadIsRecorded ==
  /\ \A i \in LoadCalls("load_entity_registry") :
       IF EntityLoadable
       THEN calls[i].out = RegistryEntities /\ calls[i].e1 = calls[i].e0 /\ calls[i].w1 = calls[i].w0
       ELSE /\ calls[i].out = <<>>
            /\ calls[i].e1 = calls[i].e0 + 1
            /\ calls[i].w1 = calls[i].w0
  /\ \A i \in LoadCalls("load_device_registry") :
       IF DeviceLoadable
       THEN calls[i].out = RegistryDevices /\ calls[i].e1 = calls[i].e0 /\ calls[i].w1 = calls[i].w0
       ELSE /\ calls[i].out = <<>>
            /\ calls[i].e1 = calls[i].e0 + 1
            /\ calls[i].w1 = calls[i].w0
  /\ \A i \in LoadCalls("load_area_registry") :
       IF AreaLoadable
       THEN calls[i].out = RegistryAreas /\ calls[i].e1 = calls[i].e0 /\ calls[i].w1 = calls[i].w0
       ELSE /\ calls[i].out = <<>>
            /\ calls[i].w1 = calls[i].w0 + 1
            /\ calls[i].e1 = calls[i].e0
  /\ pc # "raised"
  /\ pc \in {"done", "exit"} => AllFilesValidated

C6_Witness ==
  /\ pc = "done"
  /\ FileCalls # {}
  /\ DeviceLoadable
  /\ \E i \in LoadCalls("load_entity_registry") :
       ~EntityLoadable /\ calls[i].out = <<>> /\ calls[i].e1 = calls[i].e0 + 1
  /\ \E i \in LoadCalls("load_area_registry") :
       ~AreaLoadable /\ calls[i].out = <<>> /\ calls[i].w1 = calls[i].w0 + 1

\* C7: no exception leaves validate_all.
C7_NoExceptionEscapes == pc # "raised"

\* The next file of validate_all's loop is one that cannot be read or parsed
AtUnparsableFile ==
  /\ pc = "loop"
  /\ idx < Len(yaml_files)
  /\ yaml_files[idx + 1].name # s_secrets_yaml
  /\ yaml_files[idx + 1].st # "parsed"

\* C8: the iteration of validate_all on a file that cannot be read or parsed
\* appends exactly one error, which begins with the file's path, appends no
\* warning, loads no registry, script, scene or blueprint, returns False, and
\* leaves the loop at the next file; and validate_all returns only after a call
\* on every file.
C8_UnparsableFile ==
  /\ [][AtUnparsableFile =>
          /\ Len(errors') = Len(errors) + 1
          /\ SubSeq(errors', 1, Len(errors)) = errors
          /\ StartsWith(errors'[Len(errors')], FileId(yaml_files[idx + 1].name))
          /\ UNCHANGED <<warnings, c_entities, c_devices, c_areas, c_scripts, c_scenes,
                         c_blueprints>>
          /\ calls'[Len(calls')].arg = yaml_files[idx + 1].name
          /\ calls'[Len(calls')].ret = "False"
          /\ all_valid' = FALSE
          /\ pc' = "loop"
          /\ idx' = idx + 1]_vars
  /\ [](pc \in {"done", "exit"} /\ dirExists => AllFilesValidated)

C8_Witness ==
  \E i, j \in FileCalls :
    /\ i < j
    /\ FileOf(i).st # "parsed"
    /\ calls[i].ret = "False"
    /\ calls[i].e1 = calls[i].e0 + 1
    /\ calls[i].w1 = calls[i].w0

\* The automations of automations.yaml that name a blueprint the session
\* finds, with a mapping of inputs on both sides
Blueprints == BlueprintDict(blueprintFiles, <<>>)
UsePath(au) == Get(Get(au, k_use_blueprint, Null), k_path, Str(<<>>))
UseInputs(au) == Get(Get(au, k_use_blueprint, Null), k_input, Map(<<>>))
SchemaOf(au) ==
  Get(Get(Blueprints[MatchingBlueprint(Blueprints, UsePath(au)[2])][2], k_blueprint, Map(<<>>)),
      k_input, Map(<<>>))
UsesLoadedBlueprint(au) ==
  /\ IsMap(au) /\ HasKey(au, k_use_blueprint) /\ IsMap(Get(au, k_use_blueprint, Null))
  /\ IsStr(UsePath(au)) /\ ~Falsy(UsePath(au)) /\ ~StartsWith(UsePath(au)[2], <<"!">>)
  /\ MatchingBlueprint(Blueprints, UsePath(au)[2]) # 0
  /\ IsMap(Get(Blueprints[MatchingBlueprint(Blueprints, UsePath(au)[2])][2], k_blueprint, Null))
  /\ IsMap(SchemaOf(au))
  /\ IsMap(UseInputs(au))
Keys(m) == {m[2][j][1] : j \in DOMAIN m[2]}
RequiredInputs(schema) ==
  {schema[2][j][1] : j \in {n \in DOMAIN schema[2] : ~(IsMap(schema[2][n][2]) /\ HasKey(schema[2][n][2], k_default))}}
BlueprintUses(i) ==
  IF calls[i].arg = s_automations_yaml /\ FileOf(i).st = "parsed" /\ IsList(FileOf(i).doc)
  THEN {FileOf(i).doc[2][n] : n \in {m \in DOMAIN FileOf(i).doc[2] :
                                        UsesLoadedBlueprint(FileOf(i).doc[2][m])}}
  ELSE {}
Quoted(x) == <<"'">> \o x \o <<"'">>

\* C9: for an automation whose use_blueprint path matches a loaded blueprint,
\* the call on automations.yaml appends, for every input of the blueprint that
\* declares no default and that the automation does not supply, an error
\* naming the input.
C9_MissingRequiredInputIsError ==
  \A i \in FileCalls : calls[i].ret # "raised" =>
    \A au \in BlueprintUses(i) :
      \A name \in RequiredInputs(SchemaOf(au)) \ Keys(UseInputs(au)) :
        \E k \in ErrorsOf(i) : Contains(errors[k], Quoted(name))

\* C10: for an automation whose use_blueprint path matches a loaded blueprint,
\* the call on automations.yaml appends, for every input the automation
\* supplies that the blueprint does not declare, a warning naming the input
\* and no error naming it.
C10_UnknownInputIsWarning ==
  \A i \in FileCalls : calls[i].ret # "raised" =>
    \A au \in BlueprintUses(i) :
      \A name \in Keys(UseInputs(au)) \ Keys(SchemaOf(au)) :
        /\ \E k \in WarningsOf(i) : Contains(warnings[k], Quoted(name))
        /\ \A k \in ErrorsOf(i) : ~Contains(errors[k], Quoted(name))

\* The automations of the file of call i, when it is automations.yaml holding
\* a list
AutomationsOf(i) ==
  IF calls[i].arg = s_automations_yaml /\ FileOf(i).st = "parsed" /\ IsList(FileOf(i).doc)
  THEN FileOf(i).doc[2] ELSE <<>>

\* An automation whose use_blueprint names, by a non-empty string that is not
\* tag-escaped, a path that no loaded blueprint matches
UsesUnknownBlueprint(au) ==
  /\ IsMap(au) /\ HasKey(au, k_use_blueprint) /\ IsMap(Get(au, k_use_blueprint, Null))
  /\ IsStr(UsePath(au)) /\ ~Falsy(UsePath(au)) /\ ~StartsWith(UsePath(au)[2], <<"!">>)
  /\ MatchingBlueprint(Blueprints, UsePath(au)[2]) = 0

\* The warnings of call i that say automation number n uses the given path
NotFoundWarnings(i, n, path) ==
  {k \in WarningsOf(i) :
     Contains(warnings[k], <<": Automation ">> \o IntText(n) \o <<" uses blueprint ">>
                             \o Quoted(path))}

\* C11: in a call on automations.yaml that returns, every automation whose
\* use_blueprint path (a non-empty string, not tag-escaped) matches no loaded
\* blueprint gets exactly one warning naming its position and its path, no
\* error names the path, and the call returns False only if it appended an
\* error.
C11_BlueprintNotFoundWarns ==
  \A i \in FileCalls : calls[i].ret # "raised" =>
    \A n \in DOMAIN AutomationsOf(i) :
      UsesUnknownBlueprint(AutomationsOf(i)[n]) =>
        /\ Cardinality(NotFoundWarnings(i, n - 1, UsePath(AutomationsOf(i)[n])[2])) = 1
        /\ \A k \in ErrorsOf(i) : ~Contains(errors[k], Quoted(UsePath(AutomationsOf(i)[n])[2]))
        /\ calls[i].ret = "False" => ErrorsOf(i) # {}

C11_Witness ==
  \E i \in FileCalls :
    /\ calls[i].ret = "True"
    /\ Len(AutomationsOf(i)) = 2
    /\ UsesUnknownBlueprint(AutomationsOf(i)[2])
    /\ UsePath(AutomationsOf(i)[2])[2] = p_z
    /\ Len(blueprintFiles) > 0
    /\ Cardinality(NotFoundWarnings(i, 1, p_z)) = 1

\* The entity domains validate_service_calls sees: those of the registry as it
\* loads, none when it does not load
EntityDomains == {DomainOf(RegistryEntities[j][1][2]) : j \in DOMAIN RegistryEntities}
UnknownDomain(service) ==
  /\ DotCount(service) > 0
  /\ DomainOf(service) \notin builtin_service_domains \cup DYNAMIC_SERVICE_DOMAINS
                                \cup EntityDomains

\* A parsed file none of whose checks can append an error: it has no entity,
\* registry-id or device reference
NoCheckedReference(f) ==
  /\ f.name # s_secrets_yaml
  /\ f.st = "parsed"
  /\ extract_entity_references(f.doc) = {}
  /\ extract_entity_registry_ids(f.doc) = {}
  /\ extract_device_references(f.doc) = {}

FileErrorsOf(i) == {k \in ErrorsOf(i) : StartsWith(errors[k], FileId(calls[i].arg))}

C13_BuiltinDomainAccepted ==
  \A i \in FileCalls :
    (calls[i].ret # "raised" /\ FileOf(i).st = "parsed" /\ calls[i].arg # s_secrets_yaml) =>
      \A s \in extract_service_calls(FileOf(i).doc) :
        (DotCount(s) > 0 /\ DomainOf(s) \in builtin_service_domains) =>
          /\ \A k \in WarningsOf(i) : ~Contains(warnings[k], Quoted(s))
          /\ \A k \in ErrorsOf(i) :
               Contains(errors[k], Quoted(s)) => s \in extract_entity_references(FileOf(i).doc)

\* A call of validate_file_references that returned, on a file that parsed
Checked(i) ==
  calls[i].ret # "raised" /\ FileOf(i).st = "parsed" /\ calls[i].arg # s_secrets_yaml

\* The strings a document stores under one of the keys, tag-escaped ones apart
Untagged(d, keys) == {x \in StoredUnder(d, keys) : ~StartsWith(x, <<"!">>)}

\* The findings of call i about the file that name x
ErrorsNaming(i, x) == {k \in FileErrorsOf(i) : Contains(errors[k], Quoted(x))}
WarningsNaming(i, x) ==
  {k \in WarningsOf(i) :
     StartsWith(warnings[k], FileId(calls[i].arg)) /\ Contains(warnings[k], Quoted(x))}

\* C14: in a call that returns, every device id the file stores under a
\* device_id or device_ids key, at any depth, that the device registry as
\* loaded does not hold gets exactly one error naming it and the call returns
\* False; no warning names a device id of the file.
C14_UnknownDeviceIsError ==
  \A i \in FileCalls : Checked(i) =>
    \A d \in Untagged(FileOf(i).doc, DEVICE_KEYS) :
      /\ ~DictHas(RegistryDevices, Str(d)) =>
           Cardinality(ErrorsNaming(i, d)) = 1 /\ calls[i].ret = "False"
      /\ WarningsNaming(i, d) = {}

C14_Witness ==
  \E i \in FileCalls :
    /\ calls[i].arg = n_refs
    /\ RegistriesLoadable
    /\ Untagged(FileOf(i).doc, DEVICE_KEYS) = {d_dev8, d_dev9}
    /\ calls[i].ret = "False"
    /\ calls[i].e1 = calls[i].e0 + 2
    /\ Contains(errors[calls[i].e1], Quoted(d_dev9))

\* C15: in a call that returns, every area id the file stores under an area_id
\* or area_ids key, at any depth, that the area registry as loaded does not
\* hold gets exactly one warning naming it and no error; the call returns
\* False exactly when it appended an error about the file, and validate_all
\* returns True exactly when every call on a file did.
C15_UnknownAreaIsWarning ==
  /\ \A i \in FileCalls : Checked(i) =>
       /\ \A a \in Untagged(FileOf(i).doc, AREA_KEYS) :
            /\ ~DictHas(RegistryAreas, Str(a)) => Cardinality(WarningsNaming(i, a)) = 1
            /\ ErrorsNaming(i, a) = {}
       /\ (calls[i].ret = "False") <=> (FileErrorsOf(i) # {})
  /\ \A v \in SessionCalls :
       FileCalls # {} => ((calls[v].ret = "True") <=> (\A i \in FileCalls : calls[i].ret = "True"))

C15_Witness ==
  \E i \in FileCalls :
    /\ calls[i].arg = n_enabled
    /\ EntityLoadable /\ DeviceLoadable /\ ~AreaLoadable
    /\ a_ar1 \in Untagged(FileOf(i).doc, AREA_KEYS)
    /\ Cardinality(WarningsNaming(i, a_ar1)) = 1
    /\ calls[i].ret = "True"
    /\ \E v \in SessionCalls : calls[v].ret = "True"

\* The entity ids the entity registry as loaded maps a registry id to
MappedEntities(u) ==
  {RegistryEntities[j][1][2] : j \in {n \in DOMAIN RegistryEntities :
      Get(RegistryEntities[n][2], k_id, Null) = Str(u)}}

\* C16: in a call that returns, every registry id extracted from the file that
\* the registry maps to no entity gets exactly one error naming it and the
\* call returns False; one mapped to an entity whose disabled_by is not null
\* gets exactly one warning naming it and no error; one mapped to an enabled
\* entity gets neither.
C16_RegistryIdCheck ==
  \A i \in FileCalls : Checked(i) =>
    \A u \in extract_entity_registry_ids(FileOf(i).doc) :
      IF MappedEntities(u) = {}
      THEN Cardinality(ErrorsNaming(i, u)) = 1 /\ calls[i].ret = "False"
      ELSE \A e \in MappedEntities(u) :
             /\ ErrorsNaming(i, u) = {}
             /\ IF DisabledBy(e) # Null
                THEN Cardinality(WarningsNaming(i, u)) = 1
                     /\ \A k \in WarningsNaming(i, u) : Contains(warnings[k], Quoted(e))
                ELSE WarningsNaming(i, u) = {}

C16_Witness ==
  \E i \in FileCalls :
    /\ calls[i].arg = n_uuids
    /\ RegistriesLoadable
    /\ extract_entity_registry_ids(FileOf(i).doc) = {u_known, u_disabled, u_unknown}
    /\ MappedEntities(u_known) = {e_light_l}
    /\ MappedEntities(u_disabled) = {e_switch_d}
    /\ MappedEntities(u_unknown) = {}
    /\ calls[i].e1 = calls[i].e0 + 1
    /\ calls[i].w1 = calls[i].w0 + 1
    /\ calls[i].ret = "False"

(***************************************************************************)
(* Direct calls of the pure methods of a fresh session: the candidate      *)
(* classifier, the expression scanner and the entity walk, on inputs       *)
(* drawn from bounded sets.                                                *)
(***************************************************************************)
MaxPureCalls == 1

\* A string of n lower-case hexadecimal characters
Hex(n) == [i \in 1..n |-> IF i % 2 = 1 THEN "a" ELSE "7"]

ClassifierPrefixes == {<<>>, <<"!">>, <<"a">>, <<"{", "{">>}
ClassifierCores ==
  { <<>>, Hex(UuidLen), Hex(UuidLen - 1), [Hex(UuidLen) EXCEPT ![5] = "g"],
    s_all, s_none, e_sensor_t,
    <<"{", "{">>, <<"}", "}">>, <<"{", "x", "}">>,
    <<"{", "{", "x", "}", "}">>, <<"{", "{", "x", "\n", "}", "}">> }
ClassifierSuffixes == {<<>>, <<"\n">>, <<"}", "}">>, <<"7">>}
ClassifierInputs ==
  {p \o c \o s : p \in ClassifierPrefixes, c \in ClassifierCores, s \in ClassifierSuffixes}

Bool(b) == IF b THEN "True" ELSE "False"

ShouldSkipEntityValidation ==
  /\ pc = "idle"
  /\ Len(calls) < MaxPureCalls
  /\ \E value \in ClassifierInputs :
       calls' = Append(calls, Call("should_skip_entity_validation", value,
                                   Bool(should_skip_entity_validation(value)), <<>>, Self))
  /\ UNCHANGED <<envVars, errors, warnings, c_entities, c_devices, c_areas, c_scripts,
                 c_scenes, c_blueprints, pc, yaml_files, idx, all_valid>>

\* The text of a call of form n (a pattern of the scanner) on a token
CallForm(n, tok) ==
  CASE n = 1 -> s_states_call \o <<"'">> \o tok \o <<"'", ")">>
    [] n = 2 -> s_states_call \o <<"\"">> \o tok \o <<"\"", ")">>
    [] n = 3 -> s_states_dot \o tok
    [] n = 4 -> s_is_state_call \o <<"'">> \o tok \o <<"'", ",", "'", "o", "n", "'", ")">>
    [] n = 5 -> s_is_state_call \o <<"\"">> \o tok \o <<"\"", ",", "'", "o", "n", "'", ")">>
    [] n = 6 -> s_state_attr_call \o <<"'">> \o tok \o <<"'", ",", "'", "x", "'", ")">>
    [] OTHER -> s_state_attr_call \o <<"\"">> \o tok \o <<"\"", ",", "'", "x", "'", ")">>

\* An expression: its text between the double braces
Expression(text) == <<"{", "{", " ">> \o text \o <<" ", "}", "}">>

TemplateTokens ==
  { e_light_k, e_sensor_t, <<".", "k">>, <<"k", ".">>, <<".">>, <<"k">>, <<>>,
    <<"a", ".", "b", ".", "c">> }
TemplateInputs ==
  {Expression(CallForm(n, t)) : n \in 1..PatternCount, t \in TemplateTokens}
    \cup {Expression(CallForm(n, t) \o <<" ">> \o CallForm(1, e_sensor_t)) :
            n \in 1..PatternCount, t \in TemplateTokens}
    \cup {Expression(s_states_call \o <<"'">> \o e_light_k \o <<"'">>), s_tmpl_plain, e_light_k}

ExtractEntitiesFromTemplate ==
  /\ pc = "idle"
  /\ Len(calls) < MaxPureCalls
  /\ \E template \in TemplateInputs :
       calls' = Append(calls, Call("extract_entities_from_template", template, "set",
                                   extract_entities_from_template(template), Self))
  /\ UNCHANGED <<envVars, errors, warnings, c_entities, c_devices, c_areas, c_scripts,
                 c_scenes, c_blueprints, pc, yaml_files, idx, all_valid>>

\* Documents that store one string under one key: alone, in a list, inside a
\* data mapping, inside a mapping of a list, and with the key as the way to
\* an entity_id entry.
WalkKeys == {k_value_template, k_alias, k_data, k_entity_id, k_entity_ids, k_entities, k_device_id}
WalkStrings ==
  { Expression(CallForm(1, e_light_k)), Expression(CallForm(2, e_sensor_t)),
    <<"{", "{", "\n">> \o CallForm(1, e_light_k) \o <<"\n", "}", "}">>,
    <<"o", "n", " ">> \o Expression(CallForm(1, e_light_k)),
    CallForm(1, e_light_k), s_tmpl_plain, e_light_k }
WalkDocuments ==
  UNION {{ Map(<< <<k, Str(s)>> >>),
           Map(<< <<k, List(<<Str(s)>>)>> >>),
           Map(<< <<k_data, Map(<< <<k, Str(s)>> >>)>> >>),
           List(<< Map(<< <<k_alias, Str(s_one)>>, <<k, Str(s)>> >>) >>),
           Map(<< <<k, Map(<< <<k_entity_id, Str(s)>> >>)>> >>),
           Map(<< <<k, List(<< Map(<< <<k_entity_id, Str(s)>> >>) >>)>> >>) } :
         k \in WalkKeys, s \in WalkStrings}

ExtractEntityReferences ==
  /\ pc = "idle"
  /\ Len(calls) < MaxPureCalls
  /\ \E data \in WalkDocuments :
       calls' = Append(calls, Call("extract_entity_references", data, "set",
                                   extract_entity_references(data), Self))
  /\ UNCHANGED <<envVars, errors, warnings, c_entities, c_devices, c_areas, c_scripts,
                 c_scenes, c_blueprints, pc, yaml_files, idx, all_valid>>

\* Documents that store one string under a service or an action key: alone,
\* in a sequence step, and below another service or action entry.
ServiceStrings ==
  { v_light_on, v_custom_go, s_one, s_tmpl_plain,
    <<"l", "i", "g", "h", "t", ".">> \o Expression(<<"x">>),
    <<"!", "i", "n", "p", "u", "t", " ">> \o v_light_on }
ServiceDocuments ==
  UNION {{ Map(<< <<k, Str(s)>> >>),
           Map(<< <<k_sequence, List(<< Map(<< <<k, Str(s)>>, <<k_alias, Str(s_one)>> >>) >>)>> >>),
           Map(<< <<k2, List(<< Map(<< <<k, Str(s)>> >>) >>)>> >>),
           Map(<< <<k2, Map(<< <<k, Str(s)>> >>)>> >>),
           Map(<< <<k, List(<<Str(s)>>)>> >>) } :
         k \in {k_service, k_action}, k2 \in {k_service, k_action}, s \in ServiceStrings}

ExtractServiceCalls ==
  /\ pc = "idle"
  /\ Len(calls) < MaxPureCalls
  /\ \E data \in ServiceDocuments :
       calls' = Append(calls, Call("extract_service_calls", data, "set",
                                   extract_service_calls(data), Self))
  /\ UNCHANGED <<envVars, errors, warnings, c_entities, c_devices, c_areas, c_scripts,
                 c_scenes, c_blueprints, pc, yaml_files, idx, all_valid>>

\* Documents that store an id under an entity key, alone or in a list
RegistryIdDocuments ==
  UNION {{ Map(<< <<k, Str(s)>> >>),
           Map(<< <<k, List(<<Str(s), Str(e_light_l)>>)>> >>),
           Map(<< <<k_trigger, List(<< Map(<< <<k_platform, Str(s_home)>>, <<k, Str(s)>> >>) >>)>> >>),
           Map(<< <<k_target, Map(<< <<k, List(<<Str(s)>>)>> >>)>> >>) } :
         k \in ENTITY_KEYS, s \in {u_known, u_disabled, u_unknown, e_light_k, Hex(UuidLen - 1)}}

ExtractEntityRegistryIds ==
  /\ pc = "idle"
  /\ Len(calls) < MaxPureCalls
  /\ \E data \in RegistryIdDocuments :
       calls' = Append(calls, Call("extract_entity_registry_ids", data, "set",
                                   extract_entity_registry_ids(data), Self))
  /\ UNCHANGED <<envVars, errors, warnings, c_entities, c_devices, c_areas, c_scripts,
                 c_scenes, c_blueprints, pc, yaml_files, idx, all_valid>>

InitPure ==
  /\ FreshSession
  /\ others = <<>>
  /\ runner = NotRunning
  /\ dirExists = TRUE
  /\ dirFiles = <<>>
  /\ storage = AllLoadable
  /\ blueprintFiles = <<>>

NextPure ==
  \/ ShouldSkipEntityValidation
  \/ ExtractEntitiesFromTemplate
  \/ ExtractEntityReferences
  \/ ExtractServiceCalls
  \/ ExtractEntityRegistryIds

SpecPure == InitPure /\ [][NextPure]_vars

(***************************************************************************)
(* main run again: a new ReferenceValidator over the same directory and    *)
(* the same registries, after validate_all has returned.  The findings and *)
(* the result of the finished session are kept in the history.             *)
(***************************************************************************)
MaxRuns == 2

SessionsEnded == {i \in DOMAIN calls : calls[i].op = "ReferenceValidator"}

RunAgain ==
  /\ pc = "done"
  /\ Cardinality(SessionsEnded) < MaxRuns - 1
  /\ calls' = Append(calls, Call("ReferenceValidator", <<>>, calls[Len(calls)].ret,
                                 <<errors, warnings>>, Self))
  /\ errors' = <<>>
  /\ warnings' = <<>>
  /\ c_entities' = NotLoaded
  /\ c_devices' = NotLoaded
  /\ c_areas' = NotLoaded
  /\ c_scripts' = [loaded |-> FALSE, s |-> {}]
  /\ c_scenes' = [loaded |-> FALSE, s |-> {}]
  /\ c_blueprints' = NotLoaded
  /\ pc' = "idle"
  /\ yaml_files' = <<>>
  /\ idx' = 0
  /\ all_valid' = TRUE
  /\ UNCHANGED envVars

NextRuns ==
  \/ ValidateAllBegin
  \/ ValidateAllStep
  \/ ValidateAllReturn
  \/ RunAgain

SpecRuns == Init /\ [][NextRuns]_vars

\* What the contract says the classifier skips: a leading "!", 32
\* hexadecimal characters and nothing else, an opening double-brace with a
\* closing double-brace after it, or one of the reserved keywords.
SkipByContract(value) ==
  \/ StartsWith(value, <<"!">>)
  \/ Len(value) = UuidLen /\ \A i \in 1..UuidLen : value[i] \in HexChars
  \/ \E i \in 1..Len(value), j \in 1..Len(value) :
       MatchAt(value, i, <<"{", "{">>) /\ j >= i + 2 /\ MatchAt(value, j, <<"}", "}">>)
  \/ value \in {s_all, s_none}

SkipCalls == {i \in DOMAIN calls : calls[i].op = "should_skip_entity_validation"}

\* C17: should_skip_entity_validation returns True exactly for the strings
\* that begin with "!", consist of 32 hexadecimal characters, contain "{{"
\* followed by "}}", or equal "all" or "none", and False for every other
\* string.
C17_SkipExactly ==
  \A i \in SkipCalls : calls[i].ret = "True" <=> SkipByContract(calls[i].arg)

\* The tokens the seven patterns capture in a text
Captured(template) == UNION {FindAll(n, template, 1) : n \in 1..PatternCount}

\* Exactly one "." with a non-empty segment on either side
DomainAndObject(tok) == DotCount(tok) = 1 /\ 1 < FirstDot(tok) /\ FirstDot(tok) < Len(tok)

ScanCalls == {i \in DOMAIN calls : calls[i].op = "extract_entities_from_template"}

\* C18: extract_entities_from_template returns exactly the captured tokens
\* that hold one "." between two non-empty segments; a captured token with an
\* empty domain or object, or with no or several ".", is never returned.
C18_OnlyDomainAndObject ==
  \A i \in ScanCalls :
    calls[i].out = {tok \in Captured(calls[i].arg) : DomainAndObject(tok)}

WalkCalls == {i \in DOMAIN calls : calls[i].op = "extract_entity_references"}

\* A string that holds an expression calling states('x'), x being domain.object
StatesExpressions(x) ==
  LET call == CallForm(1, x)
  IN { Expression(call),
       <<"{", "{", "\n">> \o call \o <<"\n", "}", "}">>,
       <<"o", "n", " ">> \o Expression(call) }

NonReferenceKeys == {k_value_template, k_alias, k_data}

\* C19: a string holding an expression that calls states('domain.object')
\* yields domain.object when it is stored under a non-reference key, and the
\* string itself is no candidate when it is stored directly under entity_id.
C19_ExpressionUnderKey ==
  \A i \in WalkCalls : \A x \in {e_light_k, e_sensor_t} : \A s \in StatesExpressions(x) :
    /\ \A k \in NonReferenceKeys :
         calls[i].arg = Map(<< <<k, Str(s)>> >>) => x \in calls[i].out
    /\ calls[i].arg = Map(<< <<k_entity_id, Str(s)>> >>) => s \notin calls[i].out

\* The findings of the session that ended last
PreviousRun == calls[CHOOSE i \in SessionsEnded : \A j \in SessionsEnded : j <= i].out

\* C20: validate_all of a new session over the same directory and the same
\* registries ends with the errors and the warnings of the session before
\* it, element for element and in the same order.
C20_SameFindingsAgain ==
  (pc = "done" /\ SessionsEnded # {}) =>
     /\ errors = PreviousRun[1]
     /\ warnings = PreviousRun[2]

(***************************************************************************)
(* Two sessions in one process, each over a directory of its own.  One     *)
(* session runs at a time; between two operations the process may turn to  *)
(* the other session.  Everything __init__ creates belongs to the          *)
(* instance: the findings, the caches, and the directory it was given.     *)
(***************************************************************************)
NewSession ==
  [errors |-> <<>>, warnings |-> <<>>, entities |-> NotLoaded, devices |-> NotLoaded,
   areas |-> NotLoaded, scripts |-> [loaded |-> FALSE, s |-> {}],
   scenes |-> [loaded |-> FALSE, s |-> {}], blueprints |-> NotLoaded]

\* The running session, as it is set aside
Running ==
  [self |-> Self, pc |-> pc, yaml_files |-> yaml_files, idx |-> idx, all_valid |-> all_valid,
   dirExists |-> dirExists, dirFiles |-> dirFiles, storage |-> storage,
   blueprintFiles |-> blueprintFiles]

\* Switch, were _entities an attribute of the class
SwitchSharingEntities ==
  /\ others # <<>>
  /\ LET o == Head(others)
     IN /\ Commit([o.self EXCEPT !.entities = c_entities])
        /\ pc' = o.pc
        /\ yaml_files' = o.yaml_files
        /\ idx' = o.idx
        /\ all_valid' = o.all_valid
        /\ dirExists' = o.dirExists
        /\ dirFiles' = o.dirFiles
        /\ storage' = o.storage
        /\ blueprintFiles' = o.blueprintFiles
  /\ others' = Append(Tail(others), Running)
  /\ UNCHANGED <<calls, runner>>

Switch ==
  /\ others # <<>>
  /\ LET o == Head(others)
     IN /\ Commit(o.self)
        /\ pc' = o.pc
        /\ yaml_files' = o.yaml_files
        /\ idx' = o.idx
        /\ all_valid' = o.all_valid
        /\ dirExists' = o.dirExists
        /\ dirFiles' = o.dirFiles
        /\ storage' = o.storage
        /\ blueprintFiles' = o.blueprintFiles
  /\ others' = Append(Tail(others), Running)
  /\ UNCHANGED <<calls, runner>>

NoneLoadable == [entity |-> Missing, device |-> Missing, area |-> Missing]

FirstDirectories ==
  { <<FileCatalog[8], FileCatalog[4]>>, <<FileCatalog[1], FileCatalog[11]>> }
SecondDirectories ==
  { <<FileCatalog[3], FileCatalog[13]>>, <<FileCatalog[2], FileCatalog[12]>> }

InitSessions ==
  /\ FreshSession
  /\ dirExists = TRUE
  /\ dirFiles \in FirstDirectories
  /\ storage \in {AllLoadable, [AllLoadable EXCEPT !.device = Missing]}
  /\ blueprintFiles = <<>>
  /\ runner = NotRunning
  /\ \E d \in SecondDirectories, st \in {AllLoadable, NoneLoadable} :
       others = << [self |-> NewSession, pc |-> "idle", yaml_files |-> <<>>, idx |-> 0,
                    all_valid |-> TRUE, dirExists |-> TRUE, dirFiles |-> d, storage |-> st,
                    blueprintFiles |-> <<>>] >>

NextSessions ==
  \/ ValidateAllBegin
  \/ ValidateAllStep
  \/ ValidateAllReturn
  \/ Switch

SpecSessions == InitSessions /\ [][NextSessions]_vars

(***************************************************************************)
(* Direct calls of the registry loaders while the registry files change    *)
(* on disk: a file is removed, replaced by an empty registry, or replaced  *)
(* by text that is no JSON.                                                *)
(***************************************************************************)
EmptyRegistry == Json(Map(<<>>))

RegistryFileChanges ==
  /\ pc = "idle"
  /\ calls # <<>>
  /\ Len(calls) < MaxDirectLoads
  /\ \E r \in {"entity", "device", "area"}, f \in {Missing, EmptyRegistry, BadJson} :
       /\ storage[r] # f
       /\ storage' = [storage EXCEPT ![r] = f]
  /\ UNCHANGED <<dirExists, dirFiles, blueprintFiles, others, runner, errors, warnings, c_entities,
                 c_devices, c_areas, c_scripts, c_scenes, c_blueprints, pc, yaml_files, idx,
                 all_valid, calls>>

InitCache ==
  /\ FreshSession
  /\ others = <<>>
  /\ runner = NotRunning
  /\ dirExists = TRUE
  /\ dirFiles = <<>>
  /\ storage \in [entity : {Json(EntityRegistryDoc), Missing},
                  device : {Json(DeviceRegistryDoc), BadJson},
                  area : {Json(AreaRegistryDoc), Missing}]
  /\ blueprintFiles = <<>>

NextCache ==
  \/ LoadEntityRegistry
  \/ LoadDeviceRegistry
  \/ LoadAreaRegistry
  \/ RegistryFileChanges

SpecCache == InitCache /\ [][NextCache]_vars

\* validate_all of a session run alone from session state s over the files
\* from the i-th on: every <<errors, warnings, verdict>> it can end with
RECURSIVE RunFiles(_, _, _, _)
RunFiles(s, files, i, valid) ==
  IF i > Len(files) THEN {<<s.errors, s.warnings, Bool(valid)>>}
  ELSE UNION { LET r == validate_file_references(s, files[i], o)
               IN IF r.ret = "raised"
                  THEN {<<r.self.errors, r.self.warnings, "raised">>}
                  ELSE RunFiles(r.self, files, i + 1, valid /\ r.ret = "True") :
               o \in CallOrders(files[i]) }

\* What the running session can end with when it runs alone over its directory
AloneOutcomes == RunFiles(NewSession, get_yaml_files, 1, TRUE)

Outcome == <<errors, warnings, IF pc = "raised" THEN "raised" ELSE Bool(all_valid)>>

\* C21: of two sessions over directories of their own, whose operations
\* interleave in any order, each ends with errors, warnings and a verdict it
\* can end with when it runs alone.
C21_SessionsIndependent ==
  pc \in {"done", "raised"} => Outcome \in AloneOutcomes

C21_Witness ==
  /\ pc = "done"
  /\ others[1].pc = "done"
  /\ errors # <<>>
  /\ others[1].self.errors # <<>>
  /\ errors # others[1].self.errors
  /\ \E i, j, k, l \in DOMAIN calls :
       /\ i < j /\ j < k /\ k < l
       /\ calls[i].arg = n_enabled /\ calls[j].arg = n_disabled
       /\ calls[k].arg = n_refs /\ calls[l].arg = n_calls

\* The findings of a list that begin with one of the given fragments
Beginning(findings, fragments) == {k \in DOMAIN findings : findings[k][1] \in fragments}

\* C22: in one session, whatever the number of files validated and of callers
\* of the loaders, a failed load of a registry is recorded at most once for
\* each registry.
C22_LoadFailureRecordedOnce ==
  /\ Cardinality(Beginning(errors, {"Entity registry not found: ",
                                     "Failed to load entity registry: "})) <= 1
  /\ Cardinality(Beginning(errors, {"Device registry not found: ",
                                     "Failed to load device registry: "})) <= 1
  /\ Cardinality(Beginning(warnings, {"Area registry not found: ",
                                       "Failed to load area registry: "})) <= 1

\* A call that added no finding
Silent(i) == calls[i].e1 = calls[i].e0 /\ calls[i].w1 = calls[i].w0

Loaders == {"load_entity_registry", "load_device_registry", "load_area_registry"}

\* C23: once a loader has succeeded in a session, every later call of it
\* returns the same map and adds no finding, whatever has become of the
\* registry file since.
C23_LoadedRegistryIsCached ==
  \A i, j \in DOMAIN calls :
    (i < j /\ calls[i].op \in Loaders /\ calls[j].op = calls[i].op /\ Silent(i)) =>
       calls[j].out = calls[i].out /\ Silent(j)

\* Two loads of the device registry, the file removed or replaced in between
C23_Witness ==
  /\ Len(calls) = 2
  /\ calls[1].op = "load_device_registry"
  /\ calls[2].op = "load_device_registry"
  /\ Silent(1)
  /\ calls[1].out # <<>>
  /\ storage.device # Json(DeviceRegistryDoc)

\* C24: every string a document stores under an entity_id key, at any depth
\* and whatever the keys on the way to it, that the classifier does not skip
\* is in the result of extract_entity_references.
C24_EveryEntityIdHarvested ==
  \A i \in WalkCalls : \A x \in StoredUnder(calls[i].arg, {k_entity_id}) :
    ~should_skip_entity_validation(x) => x \in calls[i].out

\* C25: for every mapping entry whose value is a string holding "states(",
\* "is_state(" or "state_attr(", whatever its key, the tokens the scanner
\* extracts from the string are in the result of extract_entity_references.
C25_ScannerRunsUnderAnyKey ==
  \A i \in WalkCalls : \A p \in AllPairs(calls[i].arg) :
    (IsStr(p[2]) /\ \E x \in TEMPLATE_CALLS : Contains(p[2][2], x)) =>
       extract_entities_from_template(p[2][2]) \subseteq calls[i].out

ServiceCalls == {i \in DOMAIN calls : calls[i].op = "extract_service_calls"}

\* The strings a document stores as the value of one of the keys, at any depth
ValuesUnder(d, keys) == {p[2][2] : p \in {q \in AllPairs(d) : q[1] \in keys /\ IsStr(q[2])}}

\* An opening double brace with a closing double brace after it
HasExpression(value) ==
  \E i \in 1..Len(value), j \in 1..Len(value) :
    MatchAt(value, i, <<"{", "{">>) /\ j >= i + 2 /\ MatchAt(value, j, <<"}", "}">>)

\* C26: extract_service_calls returns every dotted string stored under a
\* service or an action key at any depth, and under either key never a value
\* that begins with "!" or holds an expression.
C26_ServiceCallsHarvested ==
  \A i \in ServiceCalls :
    /\ \A x \in ValuesUnder(calls[i].arg, {k_service, k_action}) :
         (DotCount(x) > 0 /\ ~StartsWith(x, <<"!">>) /\ ~HasExpression(x)) => x \in calls[i].out
    /\ \A x \in calls[i].out : ~StartsWith(x, <<"!">>) /\ ~HasExpression(x)

RegistryIdCalls == {i \in DOMAIN calls : calls[i].op = "extract_entity_registry_ids"}

\* 32 hexadecimal characters
OpaqueId(x) == Len(x) = UuidLen /\ \A i \in 1..UuidLen : x[i] \in HexChars

\* C27: every string of 32 hexadecimal characters stored under entity_id,
\* entity_ids or entities, alone or as an item of a list, is returned by
\* extract_entity_registry_ids.
C27_OpaqueIdsHarvested ==
  \A i \in RegistryIdCalls : \A x \in StoredUnder(calls[i].arg, ENTITY_KEYS) :
    OpaqueId(x) => x \in calls[i].out

\* C28: in the entity check of a call that returns, a candidate is exempt
\* from the registry lookup only when it is 32 hexadecimal characters or one
\* of sun.sun and zone.home; every other candidate the entity registry does
\* not hold gets an "Unknown entity" error.
C28_OnlyAllowlistExempt ==
  \A i \in FileCalls : Checked(i) =>
    \A x \in extract_entity_references(FileOf(i).doc) :
      (~OpaqueId(x) /\ x \notin {s_sun_sun, s_zone_home} /\ ~Registered(x)) =>
         ErrorsNaming(i, x) # {}

(***************************************************************************)
(* yaml_validator.py: YAMLValidator.  Its session has the fields errors    *)
(* and warnings; validate_all keeps yaml_files and all_valid.  A file of   *)
(* the directory is text that is no UTF-8 ("notutf8"), UTF-8 text that is  *)
(* no YAML ("badyaml"), a parsed document, or a file open() fails on.      *)
(***************************************************************************)
k_triggers == <<"t","r","i","g","g","e","r","s">>
k_actions == <<"a","c","t","i","o","n","s">>
k_mode == <<"m","o","d","e">>
k_enabled == <<"e","n","a","b","l","e","d">>
k_homeassistant == <<"h","o","m","e","a","s","s","i","s","t","a","n","t">>
k_discovery == <<"d","i","s","c","o","v","e","r","y">>
k_introduction == <<"i","n","t","r","o","d","u","c","t","i","o","n">>
s_configuration_yaml == <<"c","o","n","f","i","g","u","r","a","t","i","o","n",".","y","a","m","l">>
n_latin == <<"l","a","t","i","n",".","y","a","m","l">>
n_tabs == <<"t","a","b","s",".","y","m","l">>
n_locked == <<"l","o","c","k","e","d",".","y","a","m","l">>
FalseNode == <<"bool", "false">>

validate_file_encoding(s, f) ==
  IF f.st = "unreadable" THEN [self |-> s, ret |-> "raised"]
  ELSE IF f.st = "notutf8"
  THEN [self |-> AddError(s, FileId(f.name) \o <<": File must be UTF-8 encoded">>), ret |-> "False"]
  ELSE [self |-> s, ret |-> "True"]

validate_yaml_syntax(s, f) ==
  IF f.st = "badyaml"
  THEN [self |-> AddError(s, FileId(f.name) \o <<": YAML syntax error - ", "{e}">>), ret |-> "False"]
  ELSE [self |-> s, ret |-> "True"]

\* The warnings for the deprecated keys of configuration.yaml, in list order
DeprecatedKeyWarnings(s, f, keys) ==
  LET a == IF HasKey(f.doc, keys[1])
           THEN AddWarning(s, FileId(f.name) \o <<": '">> \o keys[1] \o <<"' is deprecated">>)
           ELSE s
  IN IF HasKey(f.doc, keys[2])
     THEN AddWarning(a, FileId(f.name) \o <<": '">> \o keys[2] \o <<"' is deprecated">>)
     ELSE a

validate_configuration_structure(s, f) ==
  IF f.name # s_configuration_yaml THEN [self |-> s, ret |-> "True"]
  ELSE IF ~IsMap(f.doc)
  THEN [self |-> AddError(s, FileId(f.name) \o <<": Configuration must be a dictionary">>),
        ret |-> "False"]
  ELSE LET a == IF ~HasKey(f.doc, k_homeassistant)
                THEN AddWarning(s, FileId(f.name) \o <<": Missing 'homeassistant' section">>)
                ELSE s
       IN [self |-> DeprecatedKeyWarnings(a, f, <<k_discovery, k_introduction>>), ret |-> "True"]

validate_automation_best_practices(s, automation, f, index) ==
  IF ~HasKey(automation, k_mode) /\ ~HasKey(automation, k_use_blueprint)
  THEN AddWarning(s, FileId(f.name) \o <<": '", "{alias}", "' - ",
                     "Consider specifying 'mode' explicitly (single, restart, queued, parallel)">>)
  ELSE s

\* The body of the loop of validate_automations_structure for automation i
\* (counted from 1): [self, valid]
AutomationStructure(a, automation, f, i) ==
  IF ~IsMap(automation)
  THEN [self |-> AddError(a.self, FileId(f.name) \o <<": Automation ", ToString(i - 1),
                                     " must be a dictionary">>),
        valid |-> FALSE]
  ELSE LET noTrigger == /\ ~HasKey(automation, k_use_blueprint)
                        /\ ~HasKey(automation, k_trigger) /\ ~HasKey(automation, k_triggers)
           noAction == /\ ~HasKey(automation, k_use_blueprint)
                       /\ ~HasKey(automation, k_action) /\ ~HasKey(automation, k_actions)
           s1 == IF noTrigger
                 THEN AddError(a.self, FileId(f.name) \o <<": Automation ", ToString(i - 1),
                                          " missing 'trigger' or 'triggers'">>)
                 ELSE a.self
           s2 == IF noAction
                 THEN AddError(s1, FileId(f.name) \o <<": Automation ", ToString(i - 1),
                                      " missing 'action' or 'actions'">>)
                 ELSE s1
           s3 == IF ~HasKey(automation, k_alias)
                 THEN AddWarning(s2, FileId(f.name) \o <<": Automation ", ToString(i - 1),
                                        " missing 'alias' (recommended)">>)
                 ELSE s2
       IN [self |-> validate_automation_best_practices(s3, automation, f, i),
           valid |-> a.valid /\ ~noTrigger /\ ~noAction]

RECURSIVE AutomationsLoop(_, _, _, _)
AutomationsLoop(a, automations, f, i) ==
  IF i > Len(automations) THEN a
  ELSE AutomationsLoop(AutomationStructure(a, automations[i], f, i), automations, f, i + 1)

validate_automations_structure(s, f) ==
  IF f.name # s_automations_yaml THEN [self |-> s, ret |-> "True"]
  ELSE IF f.doc[1] = "null" THEN [self |-> s, ret |-> "True"]
  ELSE IF ~IsList(f.doc)
  THEN [self |-> AddError(s, FileId(f.name) \o <<": Automations must be a list">>), ret |-> "False"]
  ELSE LET a == AutomationsLoop([self |-> s, valid |-> TRUE], f.doc[2], f, 1)
       IN [self |-> a.self, ret |-> Bool(a.valid)]

\* The body of the loop of validate_scripts_structure for the i-th script
ScriptStructure(a, entry, f) ==
  IF ~IsMap(entry[2])
  THEN [self |-> AddError(a.self, FileId(f.name) \o <<": Script '">> \o entry[1]
                                     \o <<"' must be a dictionary">>),
        valid |-> FALSE]
  ELSE IF ~HasKey(entry[2], k_use_blueprint) /\ ~HasKey(entry[2], k_sequence)
  THEN [self |-> AddError(a.self, FileId(f.name) \o <<": Script '">> \o entry[1]
                                     \o <<"' missing required 'sequence' or 'use_blueprint'">>),
        valid |-> FALSE]
  ELSE a

RECURSIVE ScriptsLoop(_, _, _, _)
ScriptsLoop(a, scripts, f, i) ==
  IF i > Len(scripts) THEN a
  ELSE ScriptsLoop(ScriptStructure(a, scripts[i], f), scripts, f, i + 1)

validate_scripts_structure(s, f) ==
  IF f.name # s_scripts_yaml THEN [self |-> s, ret |-> "True"]
  ELSE IF f.doc[1] = "null" THEN [self |-> s, ret |-> "True"]
  ELSE IF ~IsMap(f.doc)
  THEN [self |-> AddError(s, FileId(f.name) \o <<": Scripts must be a dictionary">>), ret |-> "False"]
  ELSE LET a == ScriptsLoop([self |-> s, valid |-> TRUE], f.doc[2], f, 1)
       IN [self |-> a.self, ret |-> Bool(a.valid)]

\* check_deprecated_patterns: one warning for every `enabled: false` entry and
\* every device_id or device_ids entry, in the order of the walk
RECURSIVE check_deprecated_patterns(_, _, _)
DeprecatedEntry(s, entry, f) ==
  LET s1 == IF entry[1] = k_enabled /\ entry[2] = FalseNode
            THEN AddWarning(s, FileId(f.name) \o <<": '", "{current_path}", "' - ",
                               "Consider disabling automations via the UI instead of 'enabled: false'">>)
            ELSE s
      s2 == IF entry[1] \in DEVICE_KEYS
            THEN AddWarning(s1, FileId(f.name) \o <<": '", "{current_path}", "' - ",
                                "device_id references are fragile; consider using entity_id instead">>)
            ELSE s1
  IN check_deprecated_patterns(s2, entry[2], f)

RECURSIVE DeprecatedWalk(_, _, _, _)
DeprecatedWalk(s, data, f, i) ==
  IF i > Len(data[2]) THEN s
  ELSE DeprecatedWalk(IF IsMap(data) THEN DeprecatedEntry(s, data[2][i], f)
                      ELSE check_deprecated_patterns(s, data[2][i], f),
                      data, f, i + 1)

check_deprecated_patterns(s, data, f) ==
  IF IsMap(data) \/ IsList(data) THEN DeprecatedWalk(s, data, f, 1) ELSE s

\* validate_deprecated_patterns_in_file.  The pattern lists of
\* check_hardcoded_urls and check_mqtt_topics are empty unless
\* validation_config.yaml supplies them; they add warnings only.
validate_deprecated_patterns_in_file(s, f) ==
  IF f.doc[1] = "null" THEN s ELSE check_deprecated_patterns(s, f.doc, f)

\* One iteration of the loop of YAMLValidator.validate_all: [self, valid, ret]
YamlFile(s, f, valid) ==
  IF f.name = s_secrets_yaml THEN [self |-> s, valid |-> valid, ret |-> "skipped"]
  ELSE LET enc == validate_file_encoding(s, f)
       IN IF enc.ret = "raised" THEN [self |-> enc.self, valid |-> valid, ret |-> "raised"]
          ELSE IF enc.ret = "False" THEN [self |-> enc.self, valid |-> FALSE, ret |-> "False"]
          ELSE LET syn == validate_yaml_syntax(enc.self, f)
               IN IF syn.ret = "False" THEN [self |-> syn.self, valid |-> FALSE, ret |-> "False"]
                  ELSE LET c == validate_configuration_structure(syn.self, f)
                           a == validate_automations_structure(c.self, f)
                           sc == validate_scripts_structure(a.self, f)
                       IN [self |-> validate_deprecated_patterns_in_file(sc.self, f),
                           valid |-> valid, ret |-> "True"]

\* The fields of the YAMLValidator session
YamlSelf == [errors |-> errors, warnings |-> warnings]

YamlCommit(s) ==
  /\ errors' = s.errors
  /\ warnings' = s.warnings
  /\ UNCHANGED <<c_entities, c_devices, c_areas, c_scripts, c_scenes, c_blueprints>>

\* YAMLValidator.validate_all up to its loop
YamlValidateAllBegin ==
  /\ pc = "idle"
  /\ UNCHANGED envVars
  /\ IF ~dirExists
     THEN LET s == AddError(YamlSelf, <<"Config directory ", "config", " does not exist">>)
          IN /\ YamlCommit(s)
             /\ pc' = "done"
             /\ UNCHANGED <<yaml_files, idx, all_valid>>
             /\ calls' = Append(calls, Call("YAMLValidator.validate_all", <<>>, "False", <<>>, s))
     ELSE IF Len(get_yaml_files) = 0
     THEN LET s == AddWarning(YamlSelf, <<"No YAML files found in config directory">>)
          IN /\ YamlCommit(s)
             /\ pc' = "done"
             /\ UNCHANGED <<yaml_files, idx, all_valid>>
             /\ calls' = Append(calls, Call("YAMLValidator.validate_all", <<>>, "True", <<>>, s))
     ELSE /\ yaml_files' = get_yaml_files
          /\ idx' = 0
          /\ all_valid' = TRUE
          /\ pc' = "loop"
          /\ UNCHANGED <<errors, warnings, c_entities, c_devices, c_areas, c_scripts,
                         c_scenes, c_blueprints, calls>>

\* One iteration of the loop of YAMLValidator.validate_all
YamlValidateAllStep ==
  /\ pc = "loop"
  /\ idx < Len(yaml_files)
  /\ UNCHANGED <<envVars, yaml_files>>
  /\ LET f == yaml_files[idx + 1]
         r == YamlFile(YamlSelf, f, all_valid)
     IN /\ YamlCommit(r.self)
        /\ calls' = Append(calls, Call("YAMLValidator file", f.name, r.ret, <<>>, r.self))
        /\ IF r.ret = "raised"
           THEN pc' = "raised" /\ UNCHANGED <<idx, all_valid>>
           ELSE pc' = "loop" /\ idx' = idx + 1 /\ all_valid' = r.valid

\* YAMLValidator.validate_all returns all_valid
YamlValidateAllReturn ==
  /\ pc = "loop"
  /\ idx = Len(yaml_files)
  /\ pc' = "done"
  /\ calls' = Append(calls, Call("YAMLValidator.validate_all", <<>>, Bool(all_valid), <<>>, YamlSelf))
  /\ UNCHANGED <<envVars, errors, warnings, c_entities, c_devices, c_areas, c_scripts,
                 c_scenes, c_blueprints, yaml_files, idx, all_valid>>

FileInState(name, st) == [name |-> name, st |-> st, doc |-> Null]

\* The files a directory may hold for the YAML validator
YamlCatalog ==
  << Parsed(n_automations,
       List(<< Map(<< <<k_alias, Str(s_one)>>, <<k_trigger, List(<<>>)>>,
                      <<k_action, List(<<>>)>>, <<k_mode, Str(s_one)>> >>),
               Map(<< <<k_use_blueprint, Map(<< <<k_path, Str(p_m)>> >>)>> >>) >>)),
     Parsed(n_automations,
       List(<< Map(<< <<k_alias, Str(s_one)>>, <<k_actions, List(<<>>)>> >>) >>)),
     Parsed(n_automations,
       List(<< Str(s_one),
               Map(<< <<k_triggers, List(<<>>)>>, <<k_enabled, FalseNode>> >>) >>)),
     Parsed(n_automations, Map(<< <<k_alias, Str(s_one)>> >>)),
     Parsed(n_automations, Null),
     Parsed(n_scripts, Map(<< <<k_go, Map(<< <<k_sequence, List(<<>>)>> >>)>> >>)),
     Parsed(n_scripts, Map(<< <<k_go, Map(<< <<k_alias, Str(s_one)>> >>)>>,
                              <<k_a, Str(s_one)>> >>)),
     Parsed(n_scripts, List(<<>>)),
     Parsed(s_configuration_yaml, Map(<< <<k_homeassistant, Map(<<>>)>> >>)),
     Parsed(s_configuration_yaml, Map(<< <<k_discovery, Null>> >>)),
     Parsed(s_configuration_yaml, List(<<>>)),
     Parsed(n_refs, Map(<< <<k_device_id, Str(d_dev1)>> >>)),
     FileInState(n_latin, "notutf8"),
     FileInState(n_tabs, "badyaml"),
     FileInState(n_secrets, "badyaml"),
     FileInState(n_locked, "unreadable") >>

\* The directories of at most MaxFiles files of the catalog, no name twice
YamlDirectories ==
  {d \in {Pick(YamlCatalog, I) :
            I \in {J \in SUBSET DOMAIN YamlCatalog : Cardinality(J) <= MaxFiles}} :
     \A i, j \in DOMAIN d : i # j => d[i].name # d[j].name}

InitYaml ==
  /\ FreshSession
  /\ others = <<>>
  /\ runner = NotRunning
  /\ \/ dirExists = FALSE /\ dirFiles = <<>>
     \/ dirExists = TRUE /\ dirFiles \in YamlDirectories
  /\ storage = AllLoadable
  /\ blueprintFiles = <<>>

NextYaml ==
  \/ YamlValidateAllBegin
  \/ YamlValidateAllStep
  \/ YamlValidateAllReturn

SpecYaml == InitYaml /\ [][NextYaml]_vars

YamlSessionCalls == {i \in DOMAIN calls : calls[i].op = "YAMLValidator.validate_all"}

\* C29: YAMLValidator.validate_all returns False whenever an error was
\* recorded for a checked file, and returns True only if its errors list is
\* empty when it returns.
C29_YamlVerdictFollowsErrors ==
  \A i \in YamlSessionCalls : calls[i].ret = "True" => calls[i].e1 = 0

(***************************************************************************)
(* ValidationTestRunner.run_validators_parallel: one worker thread per     *)
(* validator, the main thread collecting the results as they complete,     *)
(* under one overall timeout.                                              *)
(***************************************************************************)
\* run_all_tests: the validators it submits, in order
Validators == <<"yaml_validator.py", "reference_validator.py", "ha_official_validator.py">>

\* How subprocess.run can end in run_validator: the exit code of the
\* validator, or the exception raised instead
Completions ==
  {"0", "1", "TimeoutExpired", "FileNotFoundError", "PermissionError", "Exception"}

\* run_validator: (passed, stderr) as it returns them, with the exit code of
\* the subprocess ("" when none exited)
run_validator(script_name, exists, completion) ==
  IF script_name \notin exists
  THEN [passed |-> FALSE, stderr |-> <<"Script ", script_name, " not found">>,
        returncode |-> ""]
  ELSE CASE completion \in {"0", "1"} ->
              [passed |-> completion = "0", stderr |-> <<>>, returncode |-> completion]
         [] completion = "TimeoutExpired" ->
              [passed |-> FALSE,
               stderr |-> <<"Validator timed out after ", "timeout", " seconds">>,
               returncode |-> ""]
         [] completion = "FileNotFoundError" ->
              [passed |-> FALSE, stderr |-> <<"Python executable not found: ", "e">>,
               returncode |-> ""]
         [] completion = "PermissionError" ->
              [passed |-> FALSE, stderr |-> <<"Permission denied: ", "e">>,
               returncode |-> ""]
         [] OTHER ->
              [passed |-> FALSE, stderr |-> <<"Failed to run validator: ", "e">>,
               returncode |-> ""]

\* A future of the executor: its state and, once finished, what run_validator
\* returned
Queued == [state |-> "queued", passed |-> FALSE, stderr |-> <<>>, returncode |-> ""]

\* The entry of results for a script
Entry(script_name, passed, stderr) ==
  [script |-> script_name, passed |-> passed, stderr |-> stderr]

\* script_name in results
InResults(results, script_name) ==
  \E k \in DOMAIN results : results[k].script = script_name

\* What the runner leaves alone
sessionVars ==
  <<dirExists, dirFiles, storage, blueprintFiles, others, errors, warnings, c_entities,
    c_devices, c_areas, c_scripts, c_scenes, c_blueprints, pc, yaml_files, idx,
    all_valid, calls>>

\* executor.submit for every validator: max_workers is their number, so each
\* gets its own worker thread
Submit ==
  /\ runner.at = "idle"
  /\ runner' = [runner EXCEPT !.at = "submitted",
                              !.futures = [i \in DOMAIN Validators |-> Queued]]
  /\ UNCHANGED sessionVars

\* A worker thread takes its work item: the future is running from here on
WorkerStarts(i) ==
  /\ runner.futures[i].state = "queued"
  /\ runner' = [runner EXCEPT !.futures[i].state = "running"]
  /\ UNCHANGED sessionVars

\* run_validator returns in its worker thread: the future holds its result
WorkerFinishes(i) ==
  /\ runner.futures[i].state = "running"
  /\ \E completion \in Completions :
       LET r == run_validator(Validators[i], runner.exists, completion)
       IN runner' = [runner EXCEPT !.futures[i] =
                       [state |-> "finished", passed |-> r.passed, stderr |-> r.stderr,
                        returncode |-> r.returncode]]
  /\ UNCHANGED sessionVars

\* The futures of a set that have finished
Done(fs) == {i \in fs : runner.futures[i].state = "finished"}

\* as_completed is entered: the deadline is set, the futures already finished
\* are to be yielded first, the others are pending
AsCompleted ==
  /\ runner.at = "submitted"
  /\ runner' = [runner EXCEPT !.at = "waiting",
                              !.finished = Done(DOMAIN Validators),
                              !.pending = DOMAIN Validators \ Done(DOMAIN Validators)]
  /\ UNCHANGED sessionVars

\* as_completed yields a future it has collected and the loop body records
\* its result; run_validator raises nothing, so future.result returns it
Yield(i) ==
  /\ runner.at = "waiting"
  /\ i \in runner.finished
  /\ runner' = [runner EXCEPT
       !.finished = @ \ {i},
       !.results = Append(@, Entry(Validators[i], runner.futures[i].passed,
                                   runner.futures[i].stderr))]
  /\ UNCHANGED sessionVars

\* as_completed has nothing left to yield and the deadline has not passed: it
\* waits, and collects the pending futures that have finished
Wait ==
  /\ runner.at = "waiting"
  /\ runner.finished = {}
  /\ Done(runner.pending) # {}
  /\ runner' = [runner EXCEPT !.finished = Done(runner.pending),
                              !.pending = @ \ Done(runner.pending)]
  /\ UNCHANGED sessionVars

\* The handler of the timeout: every script without an entry is cancelled and
\* recorded as timed out; cancel stops only a future that is not running yet
TimedOut(r) ==
  LET missing == SelectSeq(Validators, LAMBDA s : ~InResults(r.results, s))
  IN [r EXCEPT
        !.at = "shutdown",
        !.futures = [i \in DOMAIN @ |->
                       IF @[i].state = "queued" /\ ~InResults(r.results, Validators[i])
                       THEN [@[i] EXCEPT !.state = "cancelled"] ELSE @[i]],
        !.results = @ \o [k \in DOMAIN missing |->
                            Entry(missing[k], FALSE,
                                  <<"Validator timed out after ", "timeout", "s">>)]]

\* as_completed has nothing left to yield, futures are pending and the
\* deadline has passed: it raises TimeoutError, whatever the pending futures
\* have done since it last collected them
Timeout ==
  /\ runner.at = "waiting"
  /\ runner.finished = {}
  /\ runner.pending # {}
  /\ runner' = TimedOut(runner)
  /\ UNCHANGED sessionVars

\* as_completed has yielded every future: the loop ends
LoopEnds ==
  /\ runner.at = "waiting"
  /\ runner.finished = {}
  /\ runner.pending = {}
  /\ runner' = [runner EXCEPT !.at = "shutdown"]
  /\ UNCHANGED sessionVars

\* The with block ends: the executor waits for its worker threads, then
\* results is returned
Return ==
  /\ runner.at = "shutdown"
  /\ \A i \in DOMAIN runner.futures : runner.futures[i].state \in {"finished", "cancelled"}
  /\ runner' = [runner EXCEPT !.at = "returned"]
  /\ UNCHANGED sessionVars

Workers ==
  \E i \in DOMAIN runner.futures : WorkerStarts(i) \/ WorkerFinishes(i)

Yields == \E i \in runner.finished : Yield(i)

InitRunner ==
  /\ FreshSession
  /\ others = <<>>
  /\ dirExists = TRUE
  /\ dirFiles = <<>>
  /\ storage = AllLoadable
  /\ blueprintFiles = <<>>
  /\ \E e \in SUBSET {Validators[i] : i \in DOMAIN Validators} :
       runner = [NotRunning EXCEPT !.exists = e]

NextRunner ==
  \/ Submit
  \/ Workers
  \/ AsCompleted
  \/ Yields
  \/ Wait
  \/ Timeout
  \/ LoopEnds
  \/ Return

SpecRunner == InitRunner /\ [][NextRunner]_vars

\* C30: when run_validators_parallel returns, every submitted validator has
\* an entry in results, and the entry is marked passed exactly when the
\* subprocess of that validator exited with code 0
C30_PassedIffExitedZero ==
  runner.at = "returned" =>
    \A i \in DOMAIN Validators :
      \E k \in DOMAIN runner.results :
        /\ runner.results[k].script = Validators[i]
        /\ runner.results[k].passed <=> runner.futures[i].returncode = "0"
====
